---- MODULE Spec2Model ----
(***************************************************************************)
(* A model of kicad_keyboard_footprints: the quadrant transform layer of   *)
(* shapes.py, the shape composers that append elements to a footprint, and *)
(* the Cherry MX assembler and name derivation of mx.py.                   *)
(*                                                                         *)
(* Numbers.  Python floats are modelled as fixed-point integers with six   *)
(* decimal places (ONE stands for 1.0), so 19.05 is 19050000.  Every       *)
(* length of the program has at most five decimals after scaling, so the   *)
(* arithmetic below is exact where the program's is; float rounding noise  *)
(* is outside the model.  Angles are integer degrees.                      *)
(*                                                                         *)
(* Exceptions.  A function that may raise returns [err, v]: err is "none"  *)
(* and v the value, or err names the exception.  A composer returns the    *)
(* log of its effects; a raise in the log ends the call that holds it.     *)
(***************************************************************************)
EXTENDS Integers, Sequences, FiniteSets, TLC

VARIABLES
    IDENTITY,    \* shapes.IDENTITY, the module-level default transform
    UNIT_SCALE,  \* mx.UNIT_SCALE, the module-level keycap transform
    op,          \* the function called last ("none": between calls)
    arg,         \* its arguments
    ret,         \* its result: [err, v] (and self, for a method)
    mod          \* the element list of the footprint the call built on

vars == <<IDENTITY, UNIT_SCALE, op, arg, ret, mod>>

----------------------------------------------------------------------------
(* Fixed-point numbers *)

ONE == 1000000

\* Thousandths: Milli(2540) is 2.54
Milli(n) == n * 1000

Abs(n) == IF n < 0 THEN 0 - n ELSE n

\* a * b for fixed-point a, b (floor of the exact product), computed in
\* halves so that no intermediate product leaves 32 bits.
Mul(a, b) ==
    LET ah == a \div 1000
        al == a % 1000
        bh == b \div 1000
        bl == b % 1000
    IN  ah * bh + ((ah * bl + al * bh + ((al * bl) \div 1000)) \div 1000)

\* KicadModTree.Vector2D
Vec(x, y) == [x |-> x, y |-> y]

VAdd(p, q) == Vec(p.x + q.x, p.y + q.y)

VSub(p, q) == Vec(p.x - q.x, p.y - q.y)

\* Vector2D * Vector2D is component-wise
VMul(p, q) == Vec(Mul(p.x, q.x), Mul(p.y, q.y))

\* Vector2D / 2
VHalf(p) == Vec(p.x \div 2, p.y \div 2)

Ok(v) == [err |-> "none", v |-> v]

\* Python's None
None == [none |-> TRUE]

Raise(e) == [err |-> e, v |-> None]

----------------------------------------------------------------------------
(* shapes.py: angles, points, transforms *)

ORIGIN == Vec(0, 0)

normalize_angle_trunc(angle) ==
    \* the remainder of a language whose % truncates toward zero
    IF angle < 0 THEN 0 - ((0 - angle) % 360) ELSE angle % 360

normalize_angle(angle) == ((angle % 360) + 360) % 360

rotate_point_unsigned(point, angle) ==
    LET a == normalize_angle(angle) IN
    CASE a = 0   -> Ok(point)
      [] a = 90  -> Ok(Vec(point.y, point.x))
      [] a = 180 -> Ok(Vec(0 - point.x, 0 - point.y))
      [] a = 270 -> Ok(Vec(point.y, 0 - point.x))
      [] OTHER   -> Raise("ValueError")

rotate_point_lenient(point, angle) ==
    \* falls back to the unrotated point instead of raising
    LET a == normalize_angle(angle) IN
    CASE a = 90  -> Ok(Vec(0 - point.y, point.x))
      [] a = 180 -> Ok(Vec(0 - point.x, 0 - point.y))
      [] a = 270 -> Ok(Vec(point.y, 0 - point.x))
      [] OTHER   -> Ok(point)

rotate_point(point, angle) ==
    LET a == normalize_angle(angle) IN
    CASE a = 0   -> Ok(point)
      [] a = 90  -> Ok(Vec(0 - point.y, point.x))
      [] a = 180 -> Ok(Vec(0 - point.x, 0 - point.y))
      [] a = 270 -> Ok(Vec(point.y, 0 - point.x))
      [] OTHER   -> Raise("ValueError")

rotate_rect(dims, angle) ==
    LET a == normalize_angle(angle) IN
    CASE a \in {0, 180}  -> Ok(dims)
      [] a \in {90, 270} -> Ok(Vec(dims.y, dims.x))
      [] OTHER           -> Raise("ValueError")

\* to_vec2 of a single number, which sets both dimensions (of a vector it is
\* a copy: callers here pass the vector itself)
to_vec2(n) == Vec(n, n)

\* Transform.__init__: translate and scale are copied into new vectors
Transform(translate, rotate, scale) ==
    [translate |-> translate, rotate |-> rotate, scale |-> scale]

Transform_apply_rotate_first(self, point) ==
    LET r == rotate_point(point, self.rotate) IN
    IF r.err # "none" THEN r
    ELSE Ok(VAdd(VMul(r.v, self.scale), self.translate))

\* Transform.apply, Transform.__call__
Transform_apply(self, point) ==
    LET r == rotate_point(VMul(point, self.scale), self.rotate) IN
    IF r.err # "none" THEN r
    ELSE Ok(VAdd(r.v, self.translate))

\* A method's effect: the receiver after the call, and the value returned.
Method(self, v) == [self |-> self, err |-> "none", v |-> v]

with_rotation_in_place(self, rotate) ==
    LET t == [self EXCEPT !.rotate = rotate] IN Method(t, t)

with_rotation(self, rotate) ==
    Method(self, Transform(self.translate, rotate, self.scale))

with_scale_kept(self, scale) == Method(self, self)

with_scale(self, scale) ==
    Method(self, Transform(self.translate, self.rotate, scale))

----------------------------------------------------------------------------
(* shapes.py: the composers.  A composer is modelled by the log of what   *)
(* it does, in program order, to the Footprint mod it is given and to the  *)
(* Transform objects it shares with its caller.  An effect is an append of *)
(* an element to mod, a raise of an exception, which ends the call (what   *)
(* a log holds after a raise never happened), or a store into a Transform  *)
(* object: "IDENTITY", the module-level transform, or "transform", the     *)
(* object passed as the transform argument.  Calls made one after the      *)
(* other concatenate their logs.                                           *)

DEFAULT_STROKE == 150000

\* KicadModTree.Pad's layer lists, by name
LAYERS_NPTH == <<"*.Cu", "*.Mask">>
LAYERS_THT == <<"*.Cu", "*.Mask">>
LAYERS_SMT == <<"F.Cu", "F.Mask", "F.Paste">>

\* mod.append(e)
Emit(e) == <<[do |-> "append", v |-> e]>>

\* raise e
Fail(e) == <<[do |-> "raise", err |-> e]>>

\* The object ref is left as t by a method called on it
Store(ref, t) == <<[do |-> "store", ref |-> ref, to |-> t]>>

IsRaise(step) == step.do = "raise"

IsAppend(step) == step.do = "append"

\* The exception a call ends with, "none" if it returns
Raised(log) ==
    LET raises == SelectSeq(log, IsRaise) IN
    IF raises = <<>> THEN "none" ELSE raises[1].err

\* The effects that happened: those before the first raise
Done(log) ==
    LET raises == {i \in DOMAIN log : IsRaise(log[i])} IN
    IF raises = {} THEN log
    ELSE SubSeq(log, 1, (CHOOSE i \in raises : \A j \in raises : i <= j) - 1)

\* The elements of mod, in append order
Appended(log) ==
    LET appends == SelectSeq(Done(log), IsAppend) IN
    [i \in DOMAIN appends |-> appends[i].v]

\* The object ref after the call, which was before when the call began
Receiver(log, ref, before) ==
    LET stores == {i \in DOMAIN Done(log) : Done(log)[i].do = "store" /\ Done(log)[i].ref = ref} IN
    IF stores = {} THEN before
    ELSE log[CHOOSE i \in stores : \A j \in stores : i >= j].to

\* No keyword arguments beyond the named ones
NoKwargs == [k \in {} |-> None]

PadElem(type, number, shape, layers, at, size, drill) ==
    [kind |-> "Pad", type |-> type, number |-> number, shape |-> shape,
     layers |-> layers, at |-> at, size |-> size, drill |-> drill]

add_npth(center, size, t) ==
    LET at == Transform_apply(t, center) IN
    IF at.err # "none" THEN Fail(at.err)
    ELSE Emit(PadElem("np_thru_hole", 0, "circle", LAYERS_NPTH, at.v,
                      to_vec2(size), size))

\* size is the pad's size as a vector (Pad widens a single number to both
\* dimensions).  layers is no parameter of add_tht_pad: a caller's layers=
\* lands in **kwargs and meets the layers=Pad.LAYERS_THT of the Pad(...)
\* call, which Python refuses with a TypeError (a keyword given twice),
\* after the arguments, transform(center) among them, have been evaluated.
add_tht_pad(number, center, size, drill, shape, t, kwargs) ==
    LET at == Transform_apply(t, center) IN
    IF at.err # "none" THEN Fail(at.err)
    ELSE IF "layers" \in DOMAIN kwargs THEN Fail("TypeError")
    ELSE Emit(PadElem("thru_hole", number, shape, LAYERS_THT, at.v, size, drill))

\* layers: <<>> stands for None; "layers or Pad.LAYERS_SMT" treats both alike
add_smt_pad_unrotated(number, center, size, shape, layers, t) ==
    LET at == Transform_apply(t, center) IN
    IF at.err # "none" THEN Fail(at.err)
    ELSE Emit(PadElem("smd", number, shape,
                         IF layers = <<>> THEN LAYERS_SMT ELSE layers,
                         at.v, size, 0))

add_smt_pad(number, center, size, shape, layers, t) ==
    LET at == Transform_apply(t, center)
        sz == rotate_rect(size, t.rotate)
    IN  IF at.err # "none" THEN Fail(at.err)
        ELSE IF sz.err # "none" THEN Fail(sz.err)
        ELSE Emit(PadElem("smd", number, shape,
                             IF layers = <<>> THEN LAYERS_SMT ELSE layers,
                             at.v, sz.v, 0))

add_rect(center, size, layer, stroke, fill, t) ==
    LET start == Transform_apply(t, VSub(center, VHalf(size)))
        end == Transform_apply(t, VAdd(center, VHalf(size)))
    IN  IF start.err # "none" THEN Fail(start.err)
        ELSE IF end.err # "none" THEN Fail(end.err)
        ELSE Emit([kind |-> IF fill THEN "FilledRect" ELSE "RectLine",
                      start |-> start.v, end |-> end.v,
                      width |-> stroke, layer |-> layer])

add_square(center, size, layer, stroke, fill, t) ==
    add_rect(center, Vec(size, size), layer, stroke, fill, t)

add_circle(center, radius, layer, stroke, t) ==
    LET c == Transform_apply(t, center) IN
    IF c.err # "none" THEN Fail(c.err)
    ELSE Emit([kind |-> "Circle", center |-> c.v, radius |-> radius,
                  layer |-> layer, width |-> stroke])

add_line(start, end, layer, stroke, t) ==
    LET s == Transform_apply(t, start)
        e == Transform_apply(t, end)
    IN  IF s.err # "none" THEN Fail(s.err)
        ELSE IF e.err # "none" THEN Fail(e.err)
        ELSE Emit([kind |-> "Line", start |-> s.v, end |-> e.v,
                      layer |-> layer, width |-> stroke])

add_arc_from_marker(start, center, end, layer, stroke, t) ==
    LET c == Transform_apply(t, center)
        e == Transform_apply(t, end)
    IN  IF c.err # "none" THEN Fail(c.err)
        ELSE IF e.err # "none" THEN Fail(e.err)
        ELSE Emit([kind |-> "Arc", start |-> c.v, center |-> c.v, end |-> e.v,
                      layer |-> layer, width |-> stroke])

add_arc(start, center, end, layer, stroke, t) ==
    LET s == Transform_apply(t, start)
        c == Transform_apply(t, center)
        e == Transform_apply(t, end)
    IN  IF s.err # "none" THEN Fail(s.err)
        ELSE IF c.err # "none" THEN Fail(c.err)
        ELSE IF e.err # "none" THEN Fail(e.err)
        ELSE Emit([kind |-> "Arc", start |-> s.v, center |-> c.v, end |-> e.v,
                      layer |-> layer, width |-> stroke])

add_text(kind, text, center, rotation, size, stroke, layer, t, mirror, hide) ==
    LET at == Transform_apply(t, center) IN
    IF at.err # "none" THEN Fail(at.err)
    ELSE Emit([kind |-> "Text", type |-> kind, text |-> text, at |-> at.v,
                  rotation |-> rotation + t.rotate, size |-> size,
                  thickness |-> stroke, layer |-> layer,
                  mirror |-> mirror, hide |-> hide])

\* Vector2D(p): of None it is the origin (KicadModTree's default coordinates)
Vector2D(p) == IF p = None THEN ORIGIN ELSE p

\* A node of a curve: a point, or ArcCenter(x, y)
ArcCenter(x, y) == [arc |-> TRUE, x |-> x, y |-> y]

IsArcCenter(n) == "arc" \in DOMAIN n

RECURSIVE curve_walk_lenient(_, _, _, _, _, _)
curve_walk_lenient(nodes, i, arc_start, layer, stroke, t) ==
    IF i >= Len(nodes) THEN <<>>
    ELSE LET first == nodes[i]
             second == nodes[i + 1]
         IN  CASE IsArcCenter(second) ->
                     curve_walk_lenient(nodes, i + 1,
                                        IF IsArcCenter(first) THEN arc_start ELSE first,
                                        layer, stroke, t)
               [] IsArcCenter(first) /\ ~IsArcCenter(second) ->
                     add_arc(Vector2D(arc_start), Vec(first.x, first.y), second,
                             layer, stroke, t)
                     \o curve_walk_lenient(nodes, i + 1, arc_start, layer, stroke, t)
               [] OTHER ->
                     add_line(first, second, layer, stroke, t)
                     \o curve_walk_lenient(nodes, i + 1, arc_start, layer, stroke, t)

\* The loop of add_curve from the pair (nodes[i], nodes[i+1]) on
RECURSIVE curve_walk(_, _, _, _, _, _)
curve_walk(nodes, i, arc_start, layer, stroke, t) ==
    IF i >= Len(nodes) THEN <<>>
    ELSE LET first == nodes[i]
             second == nodes[i + 1]
         IN  CASE IsArcCenter(first) /\ IsArcCenter(second) -> Fail("TypeError")
               [] ~IsArcCenter(first) /\ IsArcCenter(second) ->
                     curve_walk(nodes, i + 1, first, layer, stroke, t)
               [] IsArcCenter(first) /\ ~IsArcCenter(second) ->
                     add_arc(Vector2D(arc_start), Vec(first.x, first.y), second,
                             layer, stroke, t)
                     \o curve_walk(nodes, i + 1, arc_start, layer, stroke, t)
               [] OTHER ->
                     add_line(first, second, layer, stroke, t)
                     \o curve_walk(nodes, i + 1, arc_start, layer, stroke, t)

add_curve(nodes, layer, stroke, t) ==
    curve_walk(nodes, 1, None, layer, stroke, t)

\* The caller's node list after add_polygon: the outline branch appends
\* nodes[0] to the list it was given
add_polygon_nodes(nodes, fill) == IF fill THEN nodes ELSE Append(nodes, nodes[1])

RECURSIVE apply_all(_, _)
apply_all(t, nodes) ==
    IF nodes = <<>> THEN Ok(<<>>)
    ELSE LET h == Transform_apply(t, Head(nodes))
             r == apply_all(t, Tail(nodes))
         IN  IF h.err # "none" THEN h
             ELSE IF r.err # "none" THEN r
             ELSE Ok(<<h.v>> \o r.v)

add_polygon(nodes, layer, stroke, fill, t) ==
    IF fill
    THEN LET ns == apply_all(t, nodes) IN
         IF ns.err # "none" THEN Fail(ns.err)
         ELSE Emit([kind |-> "Polygon", nodes |-> ns.v, layer |-> layer, width |-> stroke])
    ELSE add_curve(add_polygon_nodes(nodes, fill), layer, stroke, t)

----------------------------------------------------------------------------
(* Number and list formatting (Python's str, format and join) *)

\* round(v / base) for base > 0: to the nearest integer, a tie to the even one
RoundHalfEven(v, base) ==
    LET n == v \div base
        r == v % base
    IN  IF 2 * r > base \/ (2 * r = base /\ n % 2 = 1) THEN n + 1 ELSE n

RECURSIVE Pow10(_)
Pow10(k) == IF k = 0 THEN 1 ELSE 10 * Pow10(k - 1)

\* The decimal digits of f, zero-padded to the given width
RECURSIVE ZeroPadded(_, _)
ZeroPadded(f, width) ==
    IF width = 0 THEN ""
    ELSE ZeroPadded(f \div 10, width - 1) \o ToString(f % 10)

\* ... with trailing zeros dropped
RECURSIVE ZeroStripped(_, _)
ZeroStripped(f, width) ==
    IF f = 0 \/ width = 0 THEN ""
    ELSE IF f % 10 = 0 THEN ZeroStripped(f \div 10, width - 1)
    ELSE ZeroPadded(f, width)

\* The number of decimal digits of n >= 0 (0 for 0)
RECURSIVE NumDigits(_)
NumDigits(n) == IF n = 0 THEN 0 ELSE 1 + NumDigits(n \div 10)

\* f"{n:.2f}": two decimals (a tie goes to the even neighbour, as Python's does
\* for every value that a float holds exactly, such as 1.125)
FormatFixed2(n) ==
    LET c == RoundHalfEven(Abs(n), ONE \div 100) IN
    (IF n < 0 /\ c # 0 THEN "-" ELSE "") \o ToString(c \div 100) \o "." \o ZeroPadded(c % 100, 2)

\* f"{n:g}": six significant digits, trailing zeros and a bare point dropped.
\* Covers n = 0 and 0.0001 <= |n| < 100000, where Python uses no exponent.
FormatGeneral(n) ==
    LET a == Abs(n)
        d == NumDigits(a \div ONE)
        \* with d integer digits, 6 - d decimals are significant
        unit == IF d = 0 THEN 1 ELSE Pow10(d)
        r == RoundHalfEven(a, unit) * unit
        frac == ZeroStripped(r % ONE, 6)
    IN  (IF n < 0 THEN "-" ELSE "") \o ToString(r \div ONE)
        \o (IF frac = "" THEN "" ELSE "." \o frac)

\* sep.join(parts)
RECURSIVE Join(_, _)
Join(parts, sep) ==
    IF parts = <<>> THEN ""
    ELSE IF Len(parts) = 1 THEN parts[1]
    ELSE parts[1] \o sep \o Join(Tail(parts), sep)

\* The concatenation of a list of lists
RECURSIVE Flatten(_)
Flatten(lists) == IF lists = <<>> THEN <<>> ELSE Head(lists) \o Flatten(Tail(lists))

----------------------------------------------------------------------------
(* mx.py: stabilizer width and footprint names *)

UNIT_SIZE == 19050000

\* KicadModTree's round_to(value, base): round(value / base) * base
round_to(value, base) == RoundHalfEven(value, base) * base

get_mx_stabilizer_width_linear(units) ==
    \* without the 2-2.75u rule
    IF units < 2 * ONE THEN 0 ELSE round_to(Mul(units - ONE, UNIT_SIZE), ONE \div 20)

get_mx_stabilizer_width(units) ==
    IF units < 2 * ONE THEN 0
    ELSE LET u == IF units < 3 * ONE THEN (9 * ONE) \div 4 ELSE units
         IN  round_to(Mul(u - ONE, UNIT_SIZE), ONE \div 20)

\* The option enums of types.py
Switch == {"Switch.NONE", "Switch.SOLDER", "Switch.HOTSWAP", "Switch.HOTSWAP_ANTISHEAR"}
Mount == {"Mount.PCB", "Mount.PLATE"}
Led == {"Led.NONE", "Led.NORMAL", "Led.REVERSE"}
Stabilizer == {"Stabilizer.NONE", "Stabilizer.NORMAL", "Stabilizer.REVERSE"}

\* A dict literal as the set of its key/value pairs
Lookup(dict, key) ==
    IF \E kv \in dict : kv[1] = key
    THEN Ok((CHOOSE kv \in dict : kv[1] = key)[2])
    ELSE Raise("KeyError")

_SWITCH_NAME == {<<"Switch.NONE", <<"NoSwitch">> >>, <<"Switch.SOLDER", <<>> >>,
                 <<"Switch.HOTSWAP", <<"Hotswap">> >>,
                 <<"Switch.HOTSWAP_ANTISHEAR", <<"Hotswap", "Antishear">> >>}

_SWITCH_DESC == {<<"Switch.NONE", <<"no switch">> >>, <<"Switch.SOLDER", <<>> >>,
                 <<"Switch.HOTSWAP", <<"hotswap">> >>,
                 <<"Switch.HOTSWAP_ANTISHEAR", <<"hotswap", "anti-shear pads">> >>}

_MOUNT_NAME == {<<"Mount.PCB", <<>> >>, <<"Mount.PLATE", <<"Plate">> >>}

_MOUNT_DESC == {<<"Mount.PCB", <<"PCB mount">> >>, <<"Mount.PLATE", <<"plate mount">> >>}

_LED_NAME == {<<"Led.NONE", <<>> >>, <<"Led.NORMAL", <<"LED">> >>,
              <<"Led.REVERSE", <<"ReversedLED">> >>}

_LED_DESC == {<<"Led.NONE", <<>> >>, <<"Led.NORMAL", <<"LED">> >>,
              <<"Led.REVERSE", <<"reverse polarity LED">> >>}

_STAB_NAME == {<<"Stabilizer.NONE", <<"NoStabilizers">> >>, <<"Stabilizer.NORMAL", <<>> >>,
               <<"Stabilizer.REVERSE", <<"ReversedStabilizers">> >>}

_STAB_DESC == {<<"Stabilizer.NONE", <<"no stabilizers">> >>, <<"Stabilizer.NORMAL", <<>> >>,
               <<"Stabilizer.REVERSE", <<"reversed stabilizers">> >>}

_get_offset_name(offset) ==
    IF offset.x = 0 /\ offset.y = 0 THEN <<>>
    ELSE <<"Offset", FormatGeneral(offset.x) \o "u">>
         \o (IF offset.y # 0 THEN <<FormatGeneral(offset.y) \o "u">> ELSE <<>>)

_get_offset_desc(offset) ==
    IF offset.x = 0 /\ offset.y = 0 THEN <<>>
    ELSE <<"offset " \o FormatGeneral(offset.x) \o "u"
           \o (IF offset.y # 0 THEN " x " \o FormatGeneral(offset.y) \o "u" ELSE "")>>

_get_angle_name(angle) ==
    IF angle = 0 THEN <<>> ELSE <<"Rotate", ToString(normalize_angle(angle))>>

_get_angle_desc(angle) ==
    IF angle = 0 THEN <<>> ELSE <<"switch rotated " \o ToString(normalize_angle(angle))>>

\* The size parameter: a number of units, or the literal "iso"
SizeUnits(u) == [iso |-> FALSE, units |-> u]
SizeIso == [iso |-> TRUE, units |-> 0]

\* The fragment lists _get_footprint_name_desc concatenates, in its order:
\* family and size, switch, mount, vertical, offset, angle, LED, stabilizer.
\* A failed table lookup is an entry with err set.
name_parts_led_last(size, switch, mount, led, stabilizer, vertical, switch_offset, switch_angle) ==
    LET has_stab == IF size.iso THEN TRUE ELSE get_mx_stabilizer_width(size.units) # 0 IN
    << Ok(<<"Cherry_MX", IF size.iso THEN "ISOEnter" ELSE FormatFixed2(size.units) \o "u">>),
       Lookup(_SWITCH_NAME, switch),
       Lookup(_MOUNT_NAME, mount),
       Ok(IF vertical THEN <<"Vertical">> ELSE <<>>),
       Ok(_get_offset_name(switch_offset)),
       Ok(_get_angle_name(switch_angle)),
       IF has_stab THEN Lookup(_STAB_NAME, stabilizer) ELSE Ok(<<>>),
       Lookup(_LED_NAME, led) >>

name_parts_no_stab(size, switch, mount, led, stabilizer, vertical, switch_offset, switch_angle) ==
    << Ok(<<"Cherry_MX", IF size.iso THEN "ISOEnter" ELSE FormatFixed2(size.units) \o "u">>),
       Lookup(_SWITCH_NAME, switch),
       Lookup(_MOUNT_NAME, mount),
       Ok(IF vertical THEN <<"Vertical">> ELSE <<>>),
       Ok(_get_offset_name(switch_offset)),
       Ok(_get_angle_name(switch_angle)),
       Lookup(_LED_NAME, led),
       Ok(<<>>) >>

name_parts(size, switch, mount, led, stabilizer, vertical, switch_offset, switch_angle) ==
    LET has_stab == IF size.iso THEN TRUE ELSE get_mx_stabilizer_width(size.units) # 0 IN
    << Ok(<<"Cherry_MX", IF size.iso THEN "ISOEnter" ELSE FormatFixed2(size.units) \o "u">>),
       Lookup(_SWITCH_NAME, switch),
       Lookup(_MOUNT_NAME, mount),
       Ok(IF vertical THEN <<"Vertical">> ELSE <<>>),
       Ok(_get_offset_name(switch_offset)),
       Ok(_get_angle_name(switch_angle)),
       Lookup(_LED_NAME, led),
       IF has_stab THEN Lookup(_STAB_NAME, stabilizer) ELSE Ok(<<>>) >>

desc_parts(size, switch, mount, led, stabilizer, vertical, switch_offset, switch_angle) ==
    LET has_stab == IF size.iso THEN TRUE ELSE get_mx_stabilizer_width(size.units) # 0 IN
    << Ok(<<"Cherry MX keyswitch",
            IF size.iso THEN "ISO Enter" ELSE FormatFixed2(size.units) \o "u">>),
       Lookup(_SWITCH_DESC, switch),
       Lookup(_MOUNT_DESC, mount),
       Ok(IF vertical THEN <<"vertical">> ELSE <<>>),
       Ok(_get_offset_desc(switch_offset)),
       Ok(_get_angle_desc(switch_angle)),
       Lookup(_LED_DESC, led),
       IF has_stab THEN Lookup(_STAB_DESC, stabilizer) ELSE Ok(<<>>) >>

\* The error of the first failed entry, "none" when none failed
FirstError(parts) ==
    IF \A i \in DOMAIN parts : parts[i].err = "none" THEN "none"
    ELSE parts[CHOOSE i \in DOMAIN parts :
                 /\ parts[i].err # "none"
                 /\ \A j \in 1..(i - 1) : parts[j].err = "none"].err

Values(parts) ==
    <<parts[1].v, parts[2].v, parts[3].v, parts[4].v,
      parts[5].v, parts[6].v, parts[7].v, parts[8].v>>

\* Returns the pair (name, desc); name_parts and desc_parts record the local
\* lists name and desc as they were built, one entry per "+=".
_get_footprint_name_desc(size, switch, mount, led, stabilizer, vertical, switch_offset, switch_angle) ==
    LET n == name_parts(size, switch, mount, led, stabilizer, vertical, switch_offset, switch_angle)
        d == desc_parts(size, switch, mount, led, stabilizer, vertical, switch_offset, switch_angle)
    IN  IF FirstError(n) # "none" THEN Raise(FirstError(n))
        ELSE IF FirstError(d) # "none" THEN Raise(FirstError(d))
        ELSE Ok([name |-> Join(Flatten(Values(n)), "_"),
                 desc |-> Join(Flatten(Values(d)), ", "),
                 name_parts |-> Values(n),
                 desc_parts |-> Values(d)])

----------------------------------------------------------------------------
(* mx.py: the composers of a switch footprint *)

\* Points and sizes are written in thousandths of a millimetre
P(x, y) == Vec(Milli(x), Milli(y))

\* x.NONE for an enum member x: the NONE of x's own enum
MemberNone(x) ==
    CASE x \in Switch -> Ok("Switch.NONE")
      [] x \in Led -> Ok("Led.NONE")
      [] x \in Stabilizer -> Ok("Stabilizer.NONE")
      [] OTHER -> Raise("AttributeError")

add_mx_reference(switch, t) ==
    LET hotswap == switch \in {"Switch.HOTSWAP", "Switch.HOTSWAP_ANTISHEAR"}
        center == IF hotswap THEN P(0, 0 - 3810) ELSE P(0, 3000)
        layer == IF hotswap THEN "B_FAB" ELSE "USER_DRAWING"
        mirror == hotswap
    IN  add_text("reference", "REF**", center, 0, None, DEFAULT_STROKE, layer, t,
                 mirror, FALSE)

add_mx_value(show_value, bottom, transform) ==
    LET VALUE_POS == P(0, 0 - 8000)
        VALUE_SIZE == P(1270, 1270)
        mirror == bottom
        layer == IF bottom THEN "B_SILK" ELSE "F_SILK"
        m == with_rotation(transform, 0)
    IN  Store("transform", m.self)
        \o add_text("value", "Val**", VALUE_POS, 0, VALUE_SIZE, DEFAULT_STROKE, layer,
                    m.v, mirror, ~show_value)

\* unit_scale, identity: the module-level UNIT_SCALE and IDENTITY
add_mx_keycap_outline(units, vertical, unit_scale, identity) ==
    LET LAYER == "USER_DRAWING"
        STROKE == Milli(150)
        TEXT_POS == P(0, 8000)
        key_size == IF vertical THEN Vec(ONE, units) ELSE Vec(units, ONE)
    IN  add_rect(ORIGIN, key_size, LAYER, STROKE, FALSE, unit_scale)
        \o add_text("user", FormatGeneral(units) \o "U", TEXT_POS, 0, None,
                    DEFAULT_STROKE, LAYER, identity, FALSE, FALSE)

add_mx_iso_enter_keycap_outline(unit_scale, identity) ==
    LET LAYER == "USER_DRAWING"
        STROKE == Milli(150)
        TEXT_POS == P(0, 8000)
        POINTS == << P(625, 1000), P(625, 0 - 1000), P(0 - 875, 0 - 1000), P(0 - 875, 0),
                     P(0 - 625, 0), P(0 - 625, 1000), P(625, 1000) >>
    IN  add_polygon(POINTS, LAYER, STROKE, FALSE, unit_scale)
        \o add_text("user", "ISO", TEXT_POS, 0, None, DEFAULT_STROKE, LAYER,
                    identity, FALSE, FALSE)

_add_pcb_mount(xfrm) ==
    LET MOUNT1_POS == P(5080, 0)
        MOUNT2_POS == P(0 - 5080, 0)
        MOUNT_SIZE == Milli(1700)
    IN  add_npth(MOUNT1_POS, MOUNT_SIZE, xfrm)
        \o add_npth(MOUNT2_POS, MOUNT_SIZE, xfrm)

_add_solder_pads(transform) ==
    LET PAD1_POS == P(2540, 0 - 5080)
        PAD2_POS == P(0 - 3810, 0 - 2540)
        SIZE == to_vec2(Milli(2200))
        DRILL == Milli(1500)
    IN  add_tht_pad(1, PAD1_POS, SIZE, DRILL, "circle", transform, NoKwargs)
        \o add_tht_pad(2, PAD2_POS, SIZE, DRILL, "circle", transform, NoKwargs)

_add_hotswap_courtyard(xfrm) ==
    LET STROKE == Milli(127)
        LAYER == "B.CrtYd"
        POINTS == << P(0 - 400, 0 - 2600), P(5300, 0 - 2600), P(5300, 0 - 7000),
                     P(0 - 4000, 0 - 7000), ArcCenter(Milli(0 - 4000), Milli(0 - 4500)),
                     P(0 - 6500, 0 - 4500), P(0 - 6500, 0 - 600), P(0 - 2400, 0 - 600),
                     ArcCenter(Milli(0 - 400), Milli(0 - 600)), P(0 - 400, 0 - 2600) >>
    IN  add_curve(POINTS, LAYER, STROKE, xfrm)

_add_hotswap_fab_open(xfrm) ==
    \* ends the outline on the courtyard's corner instead of its own first point
    LET LAYER == "B.Fab"
        MOUNT1_POS == P(0 - 3810, 0 - 2540)
        MOUNT2_POS == P(2540, 0 - 5080)
        RADIUS == Milli(1500)
        STROKE == Milli(100)
        POINTS == << P(0 - 500, 0 - 2700), P(5200, 0 - 2700), P(5200, 0 - 6900),
                     P(0 - 4000, 0 - 6900), ArcCenter(Milli(0 - 4000), Milli(0 - 4500)),
                     P(0 - 6400, 0 - 4500), P(0 - 6400, 0 - 700), P(0 - 2500, 0 - 700),
                     ArcCenter(Milli(0 - 400), Milli(0 - 600)), P(0 - 400, 0 - 2600) >>
    IN  add_curve(POINTS, LAYER, STROKE, xfrm)
        \o add_circle(MOUNT1_POS, RADIUS, LAYER, STROKE, xfrm)
        \o add_circle(MOUNT2_POS, RADIUS, LAYER, STROKE, xfrm)

_add_hotswap_fab(xfrm) ==
    LET LAYER == "B.Fab"
        MOUNT1_POS == P(0 - 3810, 0 - 2540)
        MOUNT2_POS == P(2540, 0 - 5080)
        RADIUS == Milli(1500)
        STROKE == Milli(100)
        POINTS == << P(0 - 500, 0 - 2700), P(5200, 0 - 2700), P(5200, 0 - 6900),
                     P(0 - 4000, 0 - 6900), ArcCenter(Milli(0 - 4000), Milli(0 - 4500)),
                     P(0 - 6400, 0 - 4500), P(0 - 6400, 0 - 700), P(0 - 2500, 0 - 700),
                     ArcCenter(Milli(0 - 400), Milli(0 - 600)), P(0 - 500, 0 - 2700) >>
    IN  add_curve(POINTS, LAYER, STROKE, xfrm)
        \o add_circle(MOUNT1_POS, RADIUS, LAYER, STROKE, xfrm)
        \o add_circle(MOUNT2_POS, RADIUS, LAYER, STROKE, xfrm)

_add_hotswap_socket(xfrm) ==
    LET PAD1_POS == P(0 - 7085, 0 - 2540)
        PAD2_POS == P(5842, 0 - 5080)
        PAD_SIZE == P(2550, 2500)
        PAD_LAYERS == <<"B.Cu", "B.Mask", "B.Paste">>
        MOUNT1_POS == P(0 - 3810, 0 - 2540)
        MOUNT2_POS == P(2540, 0 - 5080)
        MOUNT_SIZE == 3 * ONE
    IN  add_smt_pad(1, PAD1_POS, PAD_SIZE, "rect", PAD_LAYERS, xfrm)
        \o add_smt_pad(2, PAD2_POS, PAD_SIZE, "rect", PAD_LAYERS, xfrm)
        \o add_npth(MOUNT1_POS, MOUNT_SIZE, xfrm)
        \o add_npth(MOUNT2_POS, MOUNT_SIZE, xfrm)
        \o _add_hotswap_courtyard(xfrm)
        \o _add_hotswap_fab(xfrm)

_add_hotswap_socket_antishear(xfrm) ==
    LET PAD1_POS == P(0 - 7085, 0 - 2540)
        PAD2_POS == P(5842, 0 - 5080)
        PAD_SIZE == P(4500, 2500)
        PAD_LAYERS == <<"B.Cu">>
        PASTE1_POS == P(0 - 7085, 0 - 2540)
        PASTE2_POS == P(5815, 0 - 5080)
        PASTE_SIZE == P(2550, 2500)
        PASTE_LAYERS == <<"B.Mask", "B.Paste">>
        MOUNT1_POS == P(0 - 3810, 0 - 2540)
        MOUNT2_POS == P(2540, 0 - 5080)
        MOUNT_SIZE == to_vec2(4 * ONE)
        MOUNT_DRILL == 3 * ONE
        VIA11_POS == P(0 - 8890, 0 - 3302)
        VIA12_POS == P(0 - 8890, 0 - 1778)
        VIA21_POS == P(7620, 0 - 5842)
        VIA22_POS == P(7620, 0 - 4318)
        VIA_SIZE == to_vec2(Milli(800))
        VIA_DRILL == Milli(400)
        VIA == [layers |-> <<"*.Cu">>]
    IN  add_smt_pad(1, PAD1_POS, PAD_SIZE, "rect", PAD_LAYERS, xfrm)
        \o add_smt_pad(2, PAD2_POS, PAD_SIZE, "rect", PAD_LAYERS, xfrm)
        \o add_smt_pad(1, PASTE1_POS, PASTE_SIZE, "rect", PASTE_LAYERS, xfrm)
        \o add_smt_pad(2, PASTE2_POS, PASTE_SIZE, "rect", PASTE_LAYERS, xfrm)
        \o add_tht_pad(1, MOUNT1_POS, MOUNT_SIZE, MOUNT_DRILL, "circle", xfrm, NoKwargs)
        \o add_tht_pad(2, MOUNT2_POS, MOUNT_SIZE, MOUNT_DRILL, "circle", xfrm, NoKwargs)
        \o add_tht_pad(1, VIA11_POS, VIA_SIZE, VIA_DRILL, "circle", xfrm, VIA)
        \o add_tht_pad(1, VIA12_POS, VIA_SIZE, VIA_DRILL, "circle", xfrm, VIA)
        \o add_tht_pad(2, VIA21_POS, VIA_SIZE, VIA_DRILL, "circle", xfrm, VIA)
        \o add_tht_pad(2, VIA22_POS, VIA_SIZE, VIA_DRILL, "circle", xfrm, VIA)
        \o _add_hotswap_courtyard(xfrm)
        \o _add_hotswap_fab(xfrm)

add_mx_switch(switch, mount, front_silk, transform) ==
    IF switch = "Switch.NONE" THEN <<>> ELSE
    LET F_FAB_SIZE == Milli(12700)
        F_FAB_STROKE == Milli(100)
        F_COURTYARD_SIZE == Milli(13200)
        F_COURTYARD_STROKE == Milli(50)
        F_SILK_SIZE == Milli(13870)
        F_SILK_STROKE == Milli(120)
        CENTER_HOLE_SIZE == 4 * ONE
    IN  (IF switch = "Switch.SOLDER"
         THEN add_square(ORIGIN, F_FAB_SIZE, "F_FAB", F_FAB_STROKE, FALSE, transform)
         ELSE <<>>)
        \o add_square(ORIGIN, F_COURTYARD_SIZE, "F_COURT", F_COURTYARD_STROKE, FALSE,
                      transform)
        \o (IF front_silk
            THEN add_square(ORIGIN, F_SILK_SIZE, "F_SILK", F_SILK_STROKE, FALSE, transform)
            ELSE <<>>)
        \o add_npth(ORIGIN, CENTER_HOLE_SIZE, transform)
        \o (IF mount = "Mount.PCB" THEN _add_pcb_mount(transform) ELSE <<>>)
        \o (CASE switch = "Switch.SOLDER" -> _add_solder_pads(transform)
              [] switch = "Switch.HOTSWAP" -> _add_hotswap_socket(transform)
              [] switch = "Switch.HOTSWAP_ANTISHEAR" ->
                    _add_hotswap_socket_antishear(transform)
              [] OTHER -> <<>>)

\* identity: the module-level IDENTITY
add_mx_stabilizer(units, stabilizer, vertical, identity) ==
    IF MemberNone(stabilizer).err # "none" THEN Fail(MemberNone(stabilizer).err)
    ELSE IF stabilizer = MemberNone(stabilizer).v THEN <<>>
    ELSE LET width == get_mx_stabilizer_width(units) IN
    IF width = 0 THEN <<>> ELSE
    LET TOP_SIZE == Milli(3050)
        BOTTOM_SIZE == 4 * ONE
        TOP_Y == 0 - 7 * ONE
        BOTTOM_Y == TOP_Y + Milli(15240)
        m1 == with_rotation(identity, IF vertical THEN 0 - 90 ELSE 0)
        m2 == with_scale(m1.v, Vec(ONE, 0 - ONE))
        transform == IF stabilizer = "Stabilizer.REVERSE" THEN m2.v ELSE m1.v
        top_left == Vec(0 - (width \div 2), TOP_Y)
        top_right == Vec(width \div 2, TOP_Y)
        bottom_left == Vec(0 - (width \div 2), BOTTOM_Y)
        bottom_right == Vec(width \div 2, BOTTOM_Y)
    IN  Store("IDENTITY", m1.self)
        \o add_npth(top_left, TOP_SIZE, transform)
        \o add_npth(top_right, TOP_SIZE, transform)
        \o add_npth(bottom_left, BOTTOM_SIZE, transform)
        \o add_npth(bottom_right, BOTTOM_SIZE, transform)

add_mx_led_from_one(switch, led, t) ==
    \* numbers the LED pads 1 and 2 whatever the switch
    IF led = "Led.NONE" THEN <<>> ELSE
    LET PAD_X == Milli(1270)
        PAD_Y == Milli(5080)
        PAD_SIZE == P(1905, 1905)
        PAD_DRILL == Milli(1040)
        m == with_scale(t, Vec(0 - ONE, ONE))
        transform == IF led = "Led.REVERSE" THEN m.v ELSE t
    IN  (IF led = "Led.REVERSE" THEN Store("transform", m.self) ELSE <<>>)
        \o add_tht_pad(1, Vec(0 - PAD_X, PAD_Y), PAD_SIZE, PAD_DRILL,
                       "circle", transform, NoKwargs)
        \o add_tht_pad(2, Vec(PAD_X, PAD_Y), PAD_SIZE, PAD_DRILL,
                       "rect", transform, NoKwargs)

add_mx_led(switch, led, t) ==
    IF led = "Led.NONE" THEN <<>> ELSE
    LET PAD_X == Milli(1270)
        PAD_Y == Milli(5080)
        PAD_SIZE == P(1905, 1905)
        PAD_DRILL == Milli(1040)
        m == with_scale(t, Vec(0 - ONE, ONE))
        transform == IF led = "Led.REVERSE" THEN m.v ELSE t
        switch_pins == IF switch = "Switch.NONE" THEN 0 ELSE 2
    IN  (IF led = "Led.REVERSE" THEN Store("transform", m.self) ELSE <<>>)
        \o add_tht_pad(switch_pins + 1, Vec(0 - PAD_X, PAD_Y), PAD_SIZE, PAD_DRILL,
                       "circle", transform, NoKwargs)
        \o add_tht_pad(switch_pins + 2, Vec(PAD_X, PAD_Y), PAD_SIZE, PAD_DRILL,
                       "rect", transform, NoKwargs)

Inches_as_mm(a) == a

\* center / 25.4, millimetres to inches
Inches(a) == (a * 5) \div 127

_add_kailh_hotswap_model(transform) ==
    Emit([kind |-> "Model",
          filename |-> "{LIBNAME}/3dshapes/CPG151101S11.step",
          at |-> [x |-> Inches(transform.translate.x),
                  y |-> Inches(transform.translate.y), z |-> 0],
          scale |-> [x |-> ONE, y |-> ONE, z |-> ONE],
          angle |-> [x |-> 0, y |-> 0, z |-> transform.rotate]])

add_mx_3d_model_always(switch, transform) == _add_kailh_hotswap_model(transform)

add_mx_3d_model(switch, transform) ==
    IF switch \in {"Switch.HOTSWAP", "Switch.HOTSWAP_ANTISHEAR"}
    THEN _add_kailh_hotswap_model(transform)
    ELSE <<>>

\* A make_* call: the name and description of the Footprint and the log of
\* the call.  The Footprint is returned only if the log holds no raise.
Made(name, desc, log) == [name |-> name, desc |-> desc, log |-> log]

make_mx_switch_led_first(identity, unit_scale, units, switch, mount, led, stabilizer, vertical, front_silk, show_value, switch_offset, switch_angle) ==
    LET nd == _get_footprint_name_desc(SizeUnits(units), switch, mount, led, stabilizer,
                                       vertical, switch_offset, switch_angle)
        transform == Transform(VMul(switch_offset, to_vec2(UNIT_SIZE)), switch_angle,
                               to_vec2(ONE))
    IN  IF nd.err # "none" THEN Made("", "", Fail(nd.err))
        ELSE Made(nd.v.name, nd.v.desc,
                  add_mx_reference(switch, transform)
                  \o add_mx_value(show_value, TRUE, transform)
                  \o add_mx_switch(switch, mount, front_silk, transform)
                  \o add_mx_led(switch, led, transform)
                  \o add_mx_stabilizer(units, stabilizer, vertical, identity)
                  \o add_mx_keycap_outline(units, vertical, unit_scale, identity)
                  \o add_mx_3d_model(switch, transform))

\* identity, unit_scale: the module-level IDENTITY and UNIT_SCALE when called
make_mx_switch(identity, unit_scale, units, switch, mount, led, stabilizer, vertical, front_silk, show_value, switch_offset, switch_angle) ==
    LET nd == _get_footprint_name_desc(SizeUnits(units), switch, mount, led, stabilizer,
                                       vertical, switch_offset, switch_angle)
        transform == Transform(VMul(switch_offset, to_vec2(UNIT_SIZE)), switch_angle,
                               to_vec2(ONE))
        \* the objects transform and IDENTITY as the composers leave them
        transform1 == Receiver(add_mx_value(show_value, TRUE, transform),
                               "transform", transform)
        identity1 == Receiver(add_mx_stabilizer(units, stabilizer, vertical, identity),
                              "IDENTITY", identity)
        transform2 == Receiver(add_mx_led(switch, led, transform1),
                               "transform", transform1)
    IN  IF nd.err # "none" THEN Made("", "", Fail(nd.err))
        ELSE Made(nd.v.name, nd.v.desc,
                  add_mx_reference(switch, transform)
                  \o add_mx_value(show_value, TRUE, transform)
                  \o add_mx_switch(switch, mount, front_silk, transform1)
                  \o add_mx_stabilizer(units, stabilizer, vertical, identity)
                  \o add_mx_led(switch, led, transform1)
                  \o add_mx_keycap_outline(units, vertical, unit_scale, identity1)
                  \o add_mx_3d_model(switch, transform2))

make_mx_iso_enter(identity, unit_scale, switch, mount, led, stabilizer, front_silk, show_value, switch_angle) ==
    LET nd == _get_footprint_name_desc(SizeIso, switch, mount, led, stabilizer,
                                       FALSE, ORIGIN, switch_angle)
        transform == Transform(ORIGIN, switch_angle, to_vec2(ONE))
        transform1 == Receiver(add_mx_value(show_value, TRUE, transform),
                               "transform", transform)
        identity1 == Receiver(add_mx_stabilizer(Milli(2250), stabilizer, TRUE, identity),
                              "IDENTITY", identity)
        transform2 == Receiver(add_mx_led(switch, led, transform1),
                               "transform", transform1)
    IN  IF nd.err # "none" THEN Made("", "", Fail(nd.err))
        ELSE Made(nd.v.name, nd.v.desc,
                  add_mx_reference(switch, transform)
                  \o add_mx_value(show_value, TRUE, transform)
                  \o add_mx_switch(switch, mount, front_silk, transform1)
                  \o add_mx_stabilizer(Milli(2250), stabilizer, TRUE, identity)
                  \o add_mx_led(switch, led, transform1)
                  \o add_mx_iso_enter_keycap_outline(unit_scale, identity1)
                  \o add_mx_3d_model(switch, transform2))

----------------------------------------------------------------------------
(* Inputs *)

MaxTurns == 5
MaxCoord == 2

\* Quadrant angles, negative and beyond a full turn included
QuadrantAngles == {90 * k : k \in (0 - MaxTurns)..MaxTurns}

\* Angles that are no multiple of 90
OddAngles == {45, 0 - 30, 89, 91, 359, 405, 0 - 1}

Angles == QuadrantAngles \cup OddAngles

\* Coordinates: multiples of 1.27 mm
Coords == {c * Milli(1270) : c \in (0 - MaxCoord)..MaxCoord}

Points == {Vec(x, y) : x, y \in Coords}

Sizes == {Vec(Milli(2550), Milli(2500)), Vec(Milli(4500), Milli(2500)),
          Vec(Milli(1905), Milli(1905))}

Scales == {Vec(ONE, ONE), Vec(ONE, 0 - ONE), Vec(0 - ONE, ONE),
           Vec(2 * ONE, ONE), Vec(ONE \div 2, 3 * ONE)}

Translates == {ORIGIN, Vec(Milli(4762) + 500, 0), Vec(0 - Milli(1270), Milli(9525))}

Transforms == {Transform(tr, a, sc) : tr \in Translates, a \in Angles, sc \in Scales}

Centers == {ORIGIN, Vec(0 - Milli(7085), 0 - Milli(2540)), Vec(Milli(5842), 0 - Milli(5080))}

MaxUnits == 8

\* Key sizes for the width rule: every quarter unit up to MaxUnits, and sizes
\* just beside the thresholds 2 and 3
WidthUnits ==
    {k * (ONE \div 4) : k \in 1..(4 * MaxUnits)}
    \cup {Milli(1990), Milli(2010), Milli(2990), Milli(3010), 2 * ONE - 1, 3 * ONE - 1}

\* Key sizes for names
NameSizes ==
    {SizeIso} \cup {SizeUnits(u) : u \in {ONE, Milli(1250), 2 * ONE, Milli(2750),
                                         6 * ONE, Milli(6250)}}

Offsets == {ORIGIN, Vec(Milli(250), 0), Vec(0, 0 - Milli(500)), Vec(Milli(250), Milli(1125))}

NameAngles == {0, 90, 180, 270, 360, 0 - 90, 45}

\* Key sizes, offsets and angles for whole footprints
BuildUnits == {ONE, 2 * ONE, Milli(6250)}

BuildOffsets == {ORIGIN, Vec(Milli(250), 0 - Milli(500))}

BuildAngles == {0, 90, 180, 0 - 90, 45, 0 - 30, 405}

StabUnits == {ONE, 2 * ONE, Milli(2250), 3 * ONE, Milli(6250)}

\* Node lists for add_curve: up to MaxNodes nodes, each a point or a marker
MaxNodes == 4

CurvePoints == {P(0 - 1270, 0), P(2540, 0 - 5080), P(0, 3810)}

CurveMarkers == {ArcCenter(Milli(0 - 4000), Milli(0 - 4500)), ArcCenter(Milli(1270), 0)}

CurveNodes == UNION {[1..n -> CurvePoints \cup CurveMarkers] : n \in 0..MaxNodes}

CurveTransforms ==
    {Transform(ORIGIN, 0, to_vec2(ONE)),
     Transform(Vec(Milli(4762) + 500, 0), 90, to_vec2(ONE)),
     Transform(ORIGIN, 0 - 90, Vec(ONE, 0 - ONE)),
     Transform(ORIGIN, 45, to_vec2(ONE))}

NoArg == [none |-> TRUE]

NoRet == Ok(None)

----------------------------------------------------------------------------
(* The state machine: one action per function a caller may call.  Between *)
(* calls (op = "none") only the module-level objects carry state.         *)

Init ==
    /\ IDENTITY = Transform(ORIGIN, 0, to_vec2(ONE))
    /\ UNIT_SCALE = Transform(ORIGIN, 0, to_vec2(UNIT_SIZE))
    /\ op = "none"
    /\ arg = NoArg
    /\ ret = NoRet
    /\ mod = <<>>

Call_normalize_angle ==
    /\ op = "none"
    /\ \E a \in Angles :
        /\ op' = "normalize_angle"
        /\ arg' = [angle |-> a]
        /\ ret' = Ok(normalize_angle(a))
    /\ UNCHANGED <<IDENTITY, UNIT_SCALE, mod>>

Call_rotate_point ==
    /\ op = "none"
    /\ \E p \in Points, a \in Angles :
        /\ op' = "rotate_point"
        /\ arg' = [point |-> p, angle |-> a]
        /\ ret' = rotate_point(p, a)
    /\ UNCHANGED <<IDENTITY, UNIT_SCALE, mod>>

Call_rotate_rect ==
    /\ op = "none"
    /\ \E d \in Sizes, a \in Angles :
        /\ op' = "rotate_rect"
        /\ arg' = [dims |-> d, angle |-> a]
        /\ ret' = rotate_rect(d, a)
    /\ UNCHANGED <<IDENTITY, UNIT_SCALE, mod>>

Call_apply ==
    /\ op = "none"
    /\ \E t \in Transforms, p \in Points :
        /\ op' = "apply"
        /\ arg' = [self |-> t, point |-> p]
        /\ ret' = Transform_apply(t, p)
    /\ UNCHANGED <<IDENTITY, UNIT_SCALE, mod>>

\* with_rotation on IDENTITY, on UNIT_SCALE or on a Transform of the caller's
Call_with_rotation ==
    /\ op = "none"
    /\ \E which \in {"IDENTITY", "UNIT_SCALE", "local"}, t \in Transforms, r \in Angles :
        LET self == CASE which = "IDENTITY" -> IDENTITY
                      [] which = "UNIT_SCALE" -> UNIT_SCALE
                      [] OTHER -> t
            m == with_rotation(self, r)
        IN  /\ which # "local" => t = CHOOSE u \in Transforms : TRUE
            /\ op' = "with_rotation"
            /\ arg' = [which |-> which, self |-> self, rotate |-> r]
            /\ ret' = m
            /\ IDENTITY' = IF which = "IDENTITY" THEN m.self ELSE IDENTITY
            /\ UNIT_SCALE' = IF which = "UNIT_SCALE" THEN m.self ELSE UNIT_SCALE
    /\ UNCHANGED mod

Call_with_scale ==
    /\ op = "none"
    /\ \E which \in {"IDENTITY", "UNIT_SCALE", "local"}, t \in Transforms, sc \in Scales \cup {to_vec2(UNIT_SIZE)} :
        LET self == CASE which = "IDENTITY" -> IDENTITY
                      [] which = "UNIT_SCALE" -> UNIT_SCALE
                      [] OTHER -> t
            m == with_scale(self, sc)
        IN  /\ which # "local" => t = CHOOSE u \in Transforms : TRUE
            /\ op' = "with_scale"
            /\ arg' = [which |-> which, self |-> self, scale |-> sc]
            /\ ret' = m
            /\ IDENTITY' = IF which = "IDENTITY" THEN m.self ELSE IDENTITY
            /\ UNIT_SCALE' = IF which = "UNIT_SCALE" THEN m.self ELSE UNIT_SCALE
    /\ UNCHANGED mod

Call_add_smt_pad ==
    /\ op = "none"
    /\ \E t \in Transforms, c \in Centers, sz \in Sizes :
        \E b \in {add_smt_pad(1, c, sz, "rect", <<>>, t)} :
        /\ op' = "add_smt_pad"
        /\ arg' = [center |-> c, size |-> sz, transform |-> t]
        /\ ret' = [err |-> Raised(b), v |-> None]
        /\ mod' = Appended(b)
    /\ UNCHANGED <<IDENTITY, UNIT_SCALE>>

\* The call returns to the caller, which drops the footprint it built
Return ==
    /\ op # "none"
    /\ op' = "none"
    /\ arg' = NoArg
    /\ ret' = NoRet
    /\ mod' = <<>>
    /\ UNCHANGED <<IDENTITY, UNIT_SCALE>>

\* The composers that derive a transform from the one they are given or from
\* IDENTITY.  ret.self is the caller's transform object after the call.
Call_add_mx_value ==
    /\ op = "none"
    /\ \E t \in Transforms, show_value \in BOOLEAN, bottom \in BOOLEAN :
        \E b \in {add_mx_value(show_value, bottom, t)} :
        /\ op' = "add_mx_value"
        /\ arg' = [show_value |-> show_value, bottom |-> bottom, transform |-> t]
        /\ ret' = [err |-> Raised(b), v |-> None, self |-> Receiver(b, "transform", t)]
        /\ mod' = Appended(b)
        /\ IDENTITY' = Receiver(b, "IDENTITY", IDENTITY)
        /\ UNCHANGED UNIT_SCALE

Call_add_mx_stabilizer ==
    /\ op = "none"
    /\ \E units \in StabUnits, stabilizer \in Stabilizer, vertical \in BOOLEAN :
        \E b \in {add_mx_stabilizer(units, stabilizer, vertical, IDENTITY)} :
        /\ op' = "add_mx_stabilizer"
        /\ arg' = [units |-> units, stabilizer |-> stabilizer, vertical |-> vertical]
        /\ ret' = [err |-> Raised(b), v |-> None]
        /\ mod' = Appended(b)
        /\ IDENTITY' = Receiver(b, "IDENTITY", IDENTITY)
        /\ UNCHANGED UNIT_SCALE

Call_add_mx_led ==
    /\ op = "none"
    /\ \E t \in Transforms, switch \in Switch, led \in Led :
        \E b \in {add_mx_led(switch, led, t)} :
        /\ op' = "add_mx_led"
        /\ arg' = [switch |-> switch, led |-> led, transform |-> t]
        /\ ret' = [err |-> Raised(b), v |-> None, self |-> Receiver(b, "transform", t)]
        /\ mod' = Appended(b)
        /\ IDENTITY' = Receiver(b, "IDENTITY", IDENTITY)
        /\ UNCHANGED UNIT_SCALE

Call_add_curve ==
    /\ op = "none"
    /\ \E nodes \in CurveNodes, t \in CurveTransforms :
        \E b \in {add_curve(nodes, "F_SILK", DEFAULT_STROKE, t)} :
        /\ op' = "add_curve"
        /\ arg' = [nodes |-> nodes, transform |-> t]
        /\ ret' = [err |-> Raised(b), v |-> None]
        /\ mod' = Appended(b)
    /\ UNCHANGED <<IDENTITY, UNIT_SCALE>>

Call_add_mx_switch ==
    /\ op = "none"
    /\ \E switch \in Switch, mount \in Mount, front_silk \in BOOLEAN, t \in CurveTransforms :
        \E b \in {add_mx_switch(switch, mount, front_silk, t)} :
        /\ op' = "add_mx_switch"
        /\ arg' = [switch |-> switch, mount |-> mount, front_silk |-> front_silk,
                   transform |-> t]
        /\ ret' = [err |-> Raised(b), v |-> None]
        /\ mod' = Appended(b)
    /\ UNCHANGED <<IDENTITY, UNIT_SCALE>>

\* Corner lists for add_polygon: one to three points
PolygonNodes == UNION {[1..n -> CurvePoints] : n \in 1..3}

\* ret.nodes is the caller's list after the call
Call_add_polygon ==
    /\ op = "none"
    /\ \E nodes \in PolygonNodes, fill \in BOOLEAN, t \in CurveTransforms :
        \E b \in {add_polygon(nodes, "F_SILK", DEFAULT_STROKE, fill, t)} :
        /\ op' = "add_polygon"
        /\ arg' = [nodes |-> nodes, fill |-> fill, transform |-> t]
        /\ ret' = [err |-> Raised(b), v |-> None, nodes |-> add_polygon_nodes(nodes, fill)]
        /\ mod' = Appended(b)
    /\ UNCHANGED <<IDENTITY, UNIT_SCALE>>

Next ==
    \/ Call_normalize_angle
    \/ Call_rotate_point
    \/ Call_rotate_rect
    \/ Call_apply
    \/ Call_with_rotation
    \/ Call_with_scale
    \/ Call_add_smt_pad
    \/ Call_add_mx_value
    \/ Call_add_mx_stabilizer
    \/ Call_add_mx_led
    \/ Call_add_curve
    \/ Call_add_mx_switch
    \/ Call_add_polygon
    \/ Return

Spec == Init /\ [][Next]_vars

Call_get_mx_stabilizer_width ==
    /\ op = "none"
    /\ \E u \in WidthUnits :
        /\ op' = "get_mx_stabilizer_width"
        /\ arg' = [units |-> u]
        /\ ret' = Ok(get_mx_stabilizer_width(u))
    /\ UNCHANGED <<IDENTITY, UNIT_SCALE, mod>>

Call_get_footprint_name_desc ==
    /\ op = "none"
    /\ \E size \in NameSizes, switch \in Switch, mount \in Mount, led \in Led,
          stabilizer \in Stabilizer, vertical \in BOOLEAN,
          switch_offset \in Offsets, switch_angle \in NameAngles :
        /\ op' = "_get_footprint_name_desc"
        /\ arg' = [size |-> size, switch |-> switch, mount |-> mount, led |-> led,
                   stabilizer |-> stabilizer, vertical |-> vertical,
                   switch_offset |-> switch_offset, switch_angle |-> switch_angle]
        /\ ret' = _get_footprint_name_desc(size, switch, mount, led, stabilizer,
                                           vertical, switch_offset, switch_angle)
    /\ UNCHANGED <<IDENTITY, UNIT_SCALE, mod>>

NextName ==
    \/ Call_get_mx_stabilizer_width
    \/ Call_get_footprint_name_desc
    \/ Return

\* Calls of the width rule and the name derivation
SpecName == Init /\ [][NextName]_vars

Call_make_mx_switch ==
    /\ op = "none"
    /\ \E units \in BuildUnits, switch \in Switch, mount \in Mount, led \in Led,
          stabilizer \in Stabilizer, vertical \in BOOLEAN, front_silk \in BOOLEAN,
          show_value \in BOOLEAN, switch_offset \in BuildOffsets,
          switch_angle \in BuildAngles :
        \E m \in {make_mx_switch(IDENTITY, UNIT_SCALE, units, switch, mount, led,
                                 stabilizer, vertical, front_silk, show_value,
                                 switch_offset, switch_angle)} :
        /\ op' = "make_mx_switch"
        /\ arg' = [units |-> units, switch |-> switch, mount |-> mount, led |-> led,
                   stabilizer |-> stabilizer, vertical |-> vertical,
                   front_silk |-> front_silk, show_value |-> show_value,
                   switch_offset |-> switch_offset, switch_angle |-> switch_angle]
        /\ ret' = [err |-> Raised(m.log), v |-> [name |-> m.name, desc |-> m.desc]]
        /\ mod' = Appended(m.log)
        /\ IDENTITY' = Receiver(m.log, "IDENTITY", IDENTITY)
        /\ UNCHANGED UNIT_SCALE

Call_make_mx_iso_enter ==
    /\ op = "none"
    /\ \E switch \in Switch, mount \in Mount, led \in Led, stabilizer \in Stabilizer,
          front_silk \in BOOLEAN, show_value \in BOOLEAN, switch_angle \in BuildAngles :
        \E m \in {make_mx_iso_enter(IDENTITY, UNIT_SCALE, switch, mount, led, stabilizer,
                                    front_silk, show_value, switch_angle)} :
        /\ op' = "make_mx_iso_enter"
        /\ arg' = [switch |-> switch, mount |-> mount, led |-> led,
                   stabilizer |-> stabilizer, front_silk |-> front_silk,
                   show_value |-> show_value, switch_angle |-> switch_angle]
        /\ ret' = [err |-> Raised(m.log), v |-> [name |-> m.name, desc |-> m.desc]]
        /\ mod' = Appended(m.log)
        /\ IDENTITY' = Receiver(m.log, "IDENTITY", IDENTITY)
        /\ UNCHANGED UNIT_SCALE

\* The values a parameter of make_mx_switch takes when the call omits it
make_mx_switch_defaults ==
    [units |-> ONE, switch |-> "Switch.SOLDER", mount |-> "Mount.PCB",
     led |-> "Led.NONE", stabilizer |-> "Stabilizer.NORMAL", vertical |-> FALSE,
     front_silk |-> TRUE, show_value |-> TRUE, switch_offset |-> ORIGIN,
     switch_angle |-> 0]

make_mx_iso_enter_defaults ==
    [switch |-> "Switch.SOLDER", mount |-> "Mount.PCB", led |-> "Led.NONE",
     stabilizer |-> "Stabilizer.NORMAL", front_silk |-> TRUE, show_value |-> TRUE,
     switch_angle |-> 0]

\* Binding of a call's keyword arguments to the parameters of the function
Bind(defaults, kwargs) ==
    [k \in DOMAIN defaults |-> IF k \in DOMAIN kwargs THEN kwargs[k] ELSE defaults[k]]

\* kwargs without the keyword k
Omit(kwargs, k) == [j \in DOMAIN kwargs \ {k} |-> kwargs[j]]

\* The values a caller can pass that are no member of the enum: members of
\* the other enums and a plain string
NonMembers(enum) == ((Switch \cup Mount \cup Led \cup Stabilizer) \ enum) \cup {"reverse"}

OptionValues ==
    [switch |-> Switch \cup NonMembers(Switch), mount |-> Mount \cup NonMembers(Mount),
     led |-> Led \cup NonMembers(Led),
     stabilizer |-> Stabilizer \cup NonMembers(Stabilizer),
     front_silk |-> BOOLEAN, show_value |-> BOOLEAN, switch_angle |-> BuildAngles]

\* Calls that pass no option or one option by keyword
OneKeyword(values) ==
    {NoKwargs} \cup UNION {{k :> v : v \in values[k]} : k \in DOMAIN values}

IsoEnterKwargs == OneKeyword(OptionValues)

\* Calls that pass at most units and one other option by keyword
SwitchKwargs ==
    LET others == OneKeyword(OptionValues @@ [vertical |-> BOOLEAN,
                                              switch_offset |-> BuildOffsets])
    IN  others \cup {("units" :> u) @@ kw : u \in BuildUnits, kw \in others}

\* make_mx_switch(**kwargs): the parameters left out take their defaults
Call_make_mx_switch_kwargs ==
    /\ op = "none"
    /\ \E kwargs \in SwitchKwargs :
        \E a \in {Bind(make_mx_switch_defaults, kwargs)} :
        \E m \in {make_mx_switch(IDENTITY, UNIT_SCALE, a.units, a.switch, a.mount, a.led,
                                 a.stabilizer, a.vertical, a.front_silk, a.show_value,
                                 a.switch_offset, a.switch_angle)} :
        /\ op' = "make_mx_switch"
        /\ arg' = a @@ [kwargs |-> kwargs]
        /\ ret' = [err |-> Raised(m.log), v |-> [name |-> m.name, desc |-> m.desc]]
        /\ mod' = Appended(m.log)
        /\ IDENTITY' = Receiver(m.log, "IDENTITY", IDENTITY)
        /\ UNCHANGED UNIT_SCALE

\* make_mx_iso_enter(**kwargs)
Call_make_mx_iso_enter_kwargs ==
    /\ op = "none"
    /\ \E kwargs \in IsoEnterKwargs :
        \E a \in {Bind(make_mx_iso_enter_defaults, kwargs)} :
        \E m \in {make_mx_iso_enter(IDENTITY, UNIT_SCALE, a.switch, a.mount, a.led,
                                    a.stabilizer, a.front_silk, a.show_value,
                                    a.switch_angle)} :
        /\ op' = "make_mx_iso_enter"
        /\ arg' = a @@ [kwargs |-> kwargs]
        /\ ret' = [err |-> Raised(m.log), v |-> [name |-> m.name, desc |-> m.desc]]
        /\ mod' = Appended(m.log)
        /\ IDENTITY' = Receiver(m.log, "IDENTITY", IDENTITY)
        /\ UNCHANGED UNIT_SCALE

Call_add_mx_3d_model ==
    /\ op = "none"
    /\ \E switch \in Switch, t \in CurveTransforms :
        \E b \in {add_mx_3d_model(switch, t)} :
        /\ op' = "add_mx_3d_model"
        /\ arg' = [switch |-> switch, transform |-> t]
        /\ ret' = [err |-> Raised(b), v |-> None]
        /\ mod' = Appended(b)
    /\ UNCHANGED <<IDENTITY, UNIT_SCALE>>

\* Whole footprints, beside the rotations they rest on
NextBuild ==
    \/ Call_rotate_point
    \/ Call_rotate_rect
    \/ Call_apply
    \/ Call_make_mx_switch
    \/ Call_make_mx_iso_enter
    \/ Call_make_mx_switch_kwargs
    \/ Call_make_mx_iso_enter_kwargs
    \/ Call_add_mx_3d_model
    \/ Return

SpecBuild == Init /\ [][NextBuild]_vars

\* A footprint that one caller hands to one composer after another holds at
\* most MaxElements elements before a call
MaxElements == 3

ComposeTransforms ==
    {Transform(ORIGIN, 0, to_vec2(ONE)), Transform(Vec(Milli(4762) + 500, 0), 90, to_vec2(ONE))}

\* Calls of the composers of shapes.py: the function, its arguments and the
\* log of the call
ShapeCalls ==
    {[fn |-> "add_npth", arg |-> [transform |-> t],
      log |-> add_npth(P(5080, 0), Milli(1700), t)] : t \in ComposeTransforms}
    \cup {[fn |-> "add_tht_pad", arg |-> [kwargs |-> kw],
           log |-> add_tht_pad(1, P(2540, 0 - 5080), to_vec2(Milli(2200)), Milli(1500),
                               "circle", Transform(ORIGIN, 0, to_vec2(ONE)), kw)] :
          kw \in {NoKwargs, [layers |-> <<"*.Cu">>]}}
    \cup {[fn |-> "add_smt_pad", arg |-> [transform |-> t],
           log |-> add_smt_pad(1, P(0 - 7085, 0 - 2540), P(2550, 2500), "rect", <<>>, t)] :
          t \in ComposeTransforms}
    \cup {[fn |-> "add_rect", arg |-> [fill |-> fill],
           log |-> add_rect(ORIGIN, P(2000, 1000), "F_SILK", DEFAULT_STROKE, fill,
                            Transform(ORIGIN, 0, to_vec2(ONE)))] : fill \in BOOLEAN}
    \cup {[fn |-> "add_square", arg |-> [transform |-> t],
           log |-> add_square(ORIGIN, Milli(12700), "F_FAB", Milli(100), FALSE, t)] :
          t \in {Transform(ORIGIN, 0, to_vec2(ONE)), Transform(ORIGIN, 45, to_vec2(ONE))}}
    \cup {[fn |-> "add_circle", arg |-> NoArg,
           log |-> add_circle(P(2540, 0 - 5080), Milli(1500), "B.Fab", Milli(100),
                              Transform(ORIGIN, 0, to_vec2(ONE)))]}
    \cup {[fn |-> "add_line", arg |-> NoArg,
           log |-> add_line(ORIGIN, P(1270, 0), "F_SILK", DEFAULT_STROKE,
                            Transform(ORIGIN, 0, to_vec2(ONE)))]}
    \cup {[fn |-> "add_arc", arg |-> NoArg,
           log |-> add_arc(P(1270, 0), ORIGIN, P(0, 1270), "F_SILK", DEFAULT_STROKE,
                           Transform(ORIGIN, 0, to_vec2(ONE)))]}
    \cup {[fn |-> "add_curve", arg |-> [nodes |-> nodes],
           log |-> add_curve(nodes, "F_SILK", DEFAULT_STROKE,
                             Transform(ORIGIN, 0, to_vec2(ONE)))] :
          nodes \in {<<P(0, 0), P(1270, 0), ArcCenter(0, 0), P(0, 1270)>>,
                     <<P(0, 0), P(1270, 0), ArcCenter(0, 0), ArcCenter(0, 0), P(0, 1270)>>}}
    \cup {[fn |-> "add_polygon", arg |-> [fill |-> fill],
           log |-> add_polygon(<<P(0, 0), P(1270, 0), P(0, 1270)>>, "F_SILK",
                               DEFAULT_STROKE, fill, Transform(ORIGIN, 0, to_vec2(ONE)))] :
          fill \in BOOLEAN}
    \cup {[fn |-> "add_text", arg |-> [transform |-> t],
           log |-> add_text("user", "1U", P(0, 8000), 0, None, DEFAULT_STROKE,
                            "USER_DRAWING", t, FALSE, FALSE)] : t \in ComposeTransforms}

\* Calls of the composers of mx.py; identity and unit_scale are the module's
\* IDENTITY and UNIT_SCALE at the call
MxCalls(identity, unit_scale) ==
    {[fn |-> "add_mx_reference", arg |-> [switch |-> sw],
      log |-> add_mx_reference(sw, Transform(ORIGIN, 90, to_vec2(ONE)))] :
     sw \in {"Switch.SOLDER", "Switch.HOTSWAP"}}
    \cup {[fn |-> "add_mx_value", arg |-> [show_value |-> sv],
           log |-> add_mx_value(sv, TRUE, Transform(ORIGIN, 90, to_vec2(ONE)))] :
          sv \in BOOLEAN}
    \cup {[fn |-> "add_mx_keycap_outline", arg |-> [vertical |-> v],
           log |-> add_mx_keycap_outline(2 * ONE, v, unit_scale, identity)] : v \in BOOLEAN}
    \cup {[fn |-> "add_mx_iso_enter_keycap_outline", arg |-> NoArg,
           log |-> add_mx_iso_enter_keycap_outline(unit_scale, identity)]}
    \cup {[fn |-> "add_mx_switch", arg |-> [switch |-> sw],
           log |-> add_mx_switch(sw, "Mount.PCB", TRUE, Transform(ORIGIN, 0, to_vec2(ONE)))] :
          sw \in Switch}
    \cup {[fn |-> "add_mx_stabilizer", arg |-> [stabilizer |-> st],
           log |-> add_mx_stabilizer(2 * ONE, st, TRUE, identity)] : st \in Stabilizer}
    \cup {[fn |-> "add_mx_led", arg |-> [led |-> led],
           log |-> add_mx_led("Switch.SOLDER", led, Transform(ORIGIN, 0, to_vec2(ONE)))] :
          led \in Led}
    \cup {[fn |-> "add_mx_3d_model", arg |-> [switch |-> sw],
           log |-> add_mx_3d_model(sw, Transform(ORIGIN, 90, to_vec2(ONE)))] :
          sw \in {"Switch.SOLDER", "Switch.HOTSWAP"}}

append_all_front(elems, log) == Appended(log) \o elems

\* The footprint's element list after a call with that log: every effect on
\* mod is a mod.append
append_all(elems, log) == elems \o Appended(log)

\* A composer of shapes.py is called on the footprint the caller holds
Compose_shape ==
    /\ Len(mod) < MaxElements
    /\ \E c \in ShapeCalls :
        /\ op' = c.fn
        /\ arg' = c.arg
        /\ ret' = [err |-> Raised(c.log), v |-> None]
        /\ mod' = append_all(mod, c.log)
    /\ UNCHANGED <<IDENTITY, UNIT_SCALE>>

\* A composer of mx.py is called on the footprint the caller holds
Compose_mx ==
    /\ Len(mod) < MaxElements
    /\ \E c \in MxCalls(IDENTITY, UNIT_SCALE) :
        /\ op' = c.fn
        /\ arg' = c.arg
        /\ ret' = [err |-> Raised(c.log), v |-> None]
        /\ mod' = append_all(mod, c.log)
        /\ IDENTITY' = Receiver(c.log, "IDENTITY", IDENTITY)
    /\ UNCHANGED UNIT_SCALE

NextCompose ==
    \/ Compose_shape
    \/ Compose_mx
    \/ Return

\* Sequences of composer calls on one footprint
SpecCompose == Init /\ [][NextCompose]_vars

----------------------------------------------------------------------------
(* Claims *)

\* a is a multiple of 90
IsQuadrantAngle(a) == \E k \in (0 - 4 * (MaxTurns + 2))..(4 * (MaxTurns + 2)) : a = 90 * k

\* The number of quarter turns a multiple of 90 amounts to, in 0..3
Quadrant(a) ==
    CHOOSE q \in 0..3 : \E k \in (0 - (MaxTurns + 2))..(MaxTurns + 2) : a = 90 * q + 360 * k

\* Scale, then rotate about the origin, then translate, written out per quadrant
ScaleRotateTranslate(t, p) ==
    LET sx == Mul(p.x, t.scale.x)
        sy == Mul(p.y, t.scale.y)
        q == Quadrant(t.rotate)
    IN  CASE q = 0 -> Vec(sx + t.translate.x, sy + t.translate.y)
          [] q = 1 -> Vec((0 - sy) + t.translate.x, sx + t.translate.y)
          [] q = 2 -> Vec((0 - sx) + t.translate.x, (0 - sy) + t.translate.y)
          [] q = 3 -> Vec(sy + t.translate.x, (0 - sx) + t.translate.y)

\* C1: Transform.apply(p) is p scaled component-wise, then rotated about the
\* origin, then translated, for every quadrant rotation; with scale (1,-1) and
\* rotation 90 the point (x,y) maps to (y,x) + translate.
C1_ApplyScaleRotateTranslate ==
    (op = "apply" /\ IsQuadrantAngle(arg.self.rotate)) =>
        /\ ret.err = "none"
        /\ ret.v = ScaleRotateTranslate(arg.self, arg.point)
        /\ (arg.self.scale = Vec(ONE, 0 - ONE) /\ Quadrant(arg.self.rotate) = 1) =>
              ret.v = Vec(arg.point.y + arg.self.translate.x,
                          arg.point.x + arg.self.translate.y)

\* apply has acted on a point off both axes and off the diagonal, under a
\* non-uniform scale, a quarter turn given as -270 and a nonzero translate
C1_Witness ==
    /\ op = "apply"
    /\ arg.self.scale = Vec(2 * ONE, ONE)
    /\ arg.self.rotate = 0 - 270
    /\ arg.self.translate # ORIGIN
    /\ arg.point.x # 0 /\ arg.point.y # 0 /\ arg.point.x # arg.point.y
    /\ ret.err = "none"

\* C2: normalize_angle(a) lies in [0,360) and is unchanged by adding any
\* multiple of 360; so rotate_point by any multiple of 90, negative or beyond
\* a full turn, is the identity, (-y,x), (-x,-y) or (y,-x) by its quadrant.
C2_NormalizePeriodic ==
    /\ op = "normalize_angle" =>
        /\ ret.v \in 0..359
        /\ \A k \in (0 - MaxTurns)..MaxTurns : normalize_angle(arg.angle + 360 * k) = ret.v
    /\ (op = "rotate_point" /\ IsQuadrantAngle(arg.angle)) =>
        /\ ret.err = "none"
        /\ ret.v = CASE Quadrant(arg.angle) = 0 -> arg.point
                     [] Quadrant(arg.angle) = 1 -> Vec(0 - arg.point.y, arg.point.x)
                     [] Quadrant(arg.angle) = 2 -> Vec(0 - arg.point.x, 0 - arg.point.y)
                     [] Quadrant(arg.angle) = 3 -> Vec(arg.point.y, 0 - arg.point.x)

\* rotate_point has acted on a negative angle and returned the 270 rotation
C2_Witness ==
    /\ op = "rotate_point"
    /\ arg.angle = 0 - 90
    /\ arg.point.x # 0 /\ arg.point.y # 0
    /\ ret = Ok(Vec(arg.point.y, 0 - arg.point.x))

\* C3: rotate_point is a group action of order 4: rotating the result of a
\* rotation by a by a further b equals rotating by a + b; twice 90 is 180;
\* four times the same quadrant step returns the point.
C3_RotateGroupAction ==
    (op = "rotate_point" /\ IsQuadrantAngle(arg.angle)) =>
        /\ \A b \in QuadrantAngles :
              rotate_point(ret.v, b) = rotate_point(arg.point, arg.angle + b)
        /\ arg.angle = 90 => rotate_point(ret.v, 90) = rotate_point(arg.point, 180)
        /\ LET a == arg.angle
               second == rotate_point(ret.v, a)
               third == rotate_point(second.v, a)
               fourth == rotate_point(third.v, a)
           IN  fourth = Ok(arg.point)

\* rotate_point has acted with a quarter turn on a point that the turn moves
C3_Witness ==
    /\ op = "rotate_point"
    /\ arg.angle = 90
    /\ arg.point.x # arg.point.y /\ arg.point.x # 0 - arg.point.y
    /\ ret.err = "none"
    /\ ret.v # arg.point

\* C4: a rotation that is no multiple of 90 yields no geometry: rotate_point,
\* rotate_rect and Transform.apply raise ValueError, and make_mx_switch and
\* make_mx_iso_enter with such a switch_angle raise ValueError with no
\* element appended to the footprint, whatever the other options are.
C4_NonQuadrantRotationFails ==
    /\ (op \in {"rotate_point", "rotate_rect"} /\ ~IsQuadrantAngle(arg.angle))
         => ret.err = "ValueError"
    /\ (op = "apply" /\ ~IsQuadrantAngle(arg.self.rotate))
         => ret.err = "ValueError"
    /\ (op \in {"make_mx_switch", "make_mx_iso_enter"} /\ ~IsQuadrantAngle(arg.switch_angle))
         => /\ ret.err = "ValueError"
            /\ mod = <<>>

\* A footprint without a switch, asked for at 45 degrees, has failed with an
\* empty footprint
C4_Witness ==
    /\ op = "make_mx_switch"
    /\ arg.switch_angle = 45
    /\ arg.switch = "Switch.NONE"
    /\ arg.led = "Led.NONE"
    /\ ret.err = "ValueError"
    /\ mod = <<>>

\* C5: rotate_rect keeps (w,h) at 0 and 180 and swaps to (h,w) at 90 and 270;
\* the pad add_smt_pad appends has size rotate_rect(size, transform.rotate)
\* and centre transform.apply(centre).
C5_PadSizeFollowsRotation ==
    /\ (op = "rotate_rect" /\ IsQuadrantAngle(arg.angle)) =>
        ret = Ok(IF Quadrant(arg.angle) \in {0, 2} THEN arg.dims
                 ELSE Vec(arg.dims.y, arg.dims.x))
    /\ (op = "add_smt_pad" /\ IsQuadrantAngle(arg.transform.rotate)) =>
        /\ ret.err = "none"
        /\ Len(mod) = 1
        /\ mod[1].kind = "Pad" /\ mod[1].type = "smd"
        /\ mod[1].size = IF Quadrant(arg.transform.rotate) \in {1, 3}
                         THEN Vec(arg.size.y, arg.size.x) ELSE arg.size
        /\ mod[1].at = ScaleRotateTranslate(arg.transform, arg.center)

\* add_smt_pad has appended a non-square pad under a 270 rotation, swapped
C5_Witness ==
    /\ op = "add_smt_pad"
    /\ normalize_angle(arg.transform.rotate) = 270
    /\ arg.size.x # arg.size.y
    /\ Len(mod) = 1
    /\ mod[1].size = Vec(arg.size.y, arg.size.x)

\* C6: with_rotation and with_scale return a Transform that differs from the
\* receiver only in the overridden field, and leave the receiver as it was;
\* IDENTITY and UNIT_SCALE keep their original translate, rotate and scale
\* through every with_rotation, with_scale and composer call, and so does the
\* transform handed to add_mx_value and add_mx_led.
C6_DerivedTransformsLeaveOriginals ==
    /\ IDENTITY = [translate |-> ORIGIN, rotate |-> 0, scale |-> Vec(ONE, ONE)]
    /\ UNIT_SCALE = [translate |-> ORIGIN, rotate |-> 0, scale |-> Vec(UNIT_SIZE, UNIT_SIZE)]
    /\ op = "with_rotation"
         => /\ ret.self = arg.self
            /\ ret.v.translate = arg.self.translate
            /\ ret.v.scale = arg.self.scale
            /\ ret.v.rotate = arg.rotate
    /\ op = "with_scale"
         => /\ ret.self = arg.self
            /\ ret.v.translate = arg.self.translate
            /\ ret.v.rotate = arg.self.rotate
            /\ ret.v.scale = arg.scale
    /\ op \in {"add_mx_value", "add_mx_led"} => ret.self = arg.transform

\* A vertical reversed stabilizer has drawn its four holes through
\* IDENTITY.with_rotation(-90).with_scale((1, -1))
C6_Witness ==
    /\ op = "add_mx_stabilizer"
    /\ arg.vertical
    /\ arg.stabilizer = "Stabilizer.REVERSE"
    /\ Len(mod) = 4
    /\ mod[1].at.x = mod[2].at.x
    /\ mod[1].at.y # mod[2].at.y

\* C7: get_mx_stabilizer_width(u) is 0 for u < 2, the value for 2.25 for every
\* u in [2,3), and (u - 1) * 19.05 rounded to the nearest multiple of 0.05
\* for u >= 3 (95.25 for u = 6).
C7_StabilizerWidthRule ==
    op = "get_mx_stabilizer_width" =>
        LET u == arg.units
            w == ret.v
            exact == Mul(u - ONE, UNIT_SIZE)
        IN  /\ u < 2 * ONE => w = 0
            /\ (2 * ONE <= u /\ u < 3 * ONE) => w = get_mx_stabilizer_width(Milli(2250))
            /\ u >= 3 * ONE =>
                  /\ w % (ONE \div 20) = 0
                  /\ 2 * Abs(w - exact) <= ONE \div 20
            /\ u = 6 * ONE => w = Milli(95250)

\* the width rule has acted on 2.75 units and returned the 2.25-unit spacing
C7_Witness ==
    /\ op = "get_mx_stabilizer_width"
    /\ arg.units = Milli(2750)
    /\ ret.v = Milli(23800)

\* C8 as stated: the stabilizer width of a 2-unit key is 19.05
C8_WidthOfTwoUnitsIs1905 ==
    (op = "get_mx_stabilizer_width" /\ arg.units = 2 * ONE) =>
        /\ ret.v = round_to(Mul(ONE, UNIT_SIZE), ONE \div 20)
        /\ ret.v = Milli(19050)

\* C8, amended: the stabilizer width of a 2-unit key is that of a 2.25-unit
\* key, round_to(1.25 * 19.05, 0.05) = 23.8.
C8_WidthOfTwoUnitsIs238 ==
    (op = "get_mx_stabilizer_width" /\ arg.units = 2 * ONE) =>
        /\ ret.v = round_to(Mul(Milli(1250), UNIT_SIZE), ONE \div 20)
        /\ ret.v = Milli(23800)

\* the width rule has acted on exactly 2 units
C8_Witness ==
    /\ op = "get_mx_stabilizer_width"
    /\ arg.units = 2 * ONE
    /\ ret.err = "none"
    /\ ret.v # 0

\* The size has nonzero stabilizer width (ISO Enter takes 2.25-unit stabilizers)
HasStabilizerWidth(size) == size.iso \/ get_mx_stabilizer_width(size.units) # 0

\* The name fragments the claim C9 lists, in its order; the texts of the
\* offset, angle, LED and stabilizer fragments are the program's.
C9_Fragments(a) ==
    <<"Cherry_MX">>
    \o <<IF a.size.iso THEN "ISOEnter" ELSE FormatFixed2(a.size.units) \o "u">>
    \o (CASE a.switch = "Switch.SOLDER" -> <<>>
          [] a.switch = "Switch.NONE" -> <<"NoSwitch">>
          [] a.switch = "Switch.HOTSWAP" -> <<"Hotswap">>
          [] a.switch = "Switch.HOTSWAP_ANTISHEAR" -> <<"Hotswap", "Antishear">>)
    \o (IF a.mount = "Mount.PLATE" THEN <<"Plate">> ELSE <<>>)
    \o (IF a.vertical THEN <<"Vertical">> ELSE <<>>)
    \o (IF a.switch_offset # ORIGIN THEN _get_offset_name(a.switch_offset) ELSE <<>>)
    \o (IF a.switch_angle # 0 THEN _get_angle_name(a.switch_angle) ELSE <<>>)
    \o (IF a.led # "Led.NONE" THEN Lookup(_LED_NAME, a.led).v ELSE <<>>)
    \o (IF a.stabilizer # "Stabilizer.NORMAL" /\ HasStabilizerWidth(a.size)
        THEN Lookup(_STAB_NAME, a.stabilizer).v ELSE <<>>)

AllDefault(a) ==
    /\ a.size = SizeUnits(ONE)
    /\ a.switch = "Switch.SOLDER"
    /\ a.mount = "Mount.PCB"
    /\ a.led = "Led.NONE"
    /\ a.stabilizer = "Stabilizer.NORMAL"
    /\ ~a.vertical
    /\ a.switch_offset = ORIGIN
    /\ a.switch_angle = 0

\* C9: the name is the underscore-join of: "Cherry_MX", the size, the switch
\* fragment, "Plate" iff plate mount, "Vertical" iff vertical, the offset
\* fragment iff the offset is nonzero, the angle fragment iff the angle is
\* nonzero, the LED fragment iff led != None, the stabilizer fragment iff
\* stabilizer != Normal and the size has stabilizer width; the all-default
\* tuple is named "Cherry_MX_1.00u".
C9_NameFragmentsInOrder ==
    op = "_get_footprint_name_desc" =>
        /\ ret.err = "none"
        /\ ret.v.name = Join(C9_Fragments(arg), "_")
        /\ ret.v.name_parts[5] # <<>> <=> arg.switch_offset # ORIGIN
        /\ ret.v.name_parts[6] # <<>> <=> arg.switch_angle # 0
        /\ ret.v.name_parts[7] # <<>> <=> arg.led # "Led.NONE"
        /\ ret.v.name_parts[8] # <<>> <=>
              (arg.stabilizer # "Stabilizer.NORMAL" /\ HasStabilizerWidth(arg.size))
        /\ AllDefault(arg) => ret.v.name = "Cherry_MX_1.00u"

\* a name with every optional fragment present has been derived
C9_Witness ==
    /\ op = "_get_footprint_name_desc"
    /\ arg.size = SizeUnits(Milli(6250))
    /\ arg.switch_offset = Vec(Milli(250), Milli(1125))
    /\ ret.err = "none"
    /\ ret.v.name = "Cherry_MX_6.25u_Hotswap_Antishear_Plate_Vertical_Offset_0.25u_1.125u_Rotate_270_ReversedLED_NoStabilizers"

\* C10 as stated: an option contributes a description fragment exactly when
\* it contributes a name fragment, and the all-default description holds only
\* the family and size fragments.
C10_DescriptionMirrorsName ==
    (op = "_get_footprint_name_desc" /\ ret.err = "none") =>
        /\ \A i \in 2..8 : ret.v.desc_parts[i] = <<>> <=> ret.v.name_parts[i] = <<>>
        /\ AllDefault(arg) => ret.v.desc = "Cherry MX keyswitch, 1.00u"

\* The result a make_* call leaves behind: what it returns or raises, and the
\* elements appended
Outcome(m) ==
    [ret |-> [err |-> Raised(m.log), v |-> [name |-> m.name, desc |-> m.desc]],
     mod |-> Appended(m.log)]

\* The build of the options a in a freshly imported module
FreshSwitch(a) ==
    make_mx_switch(Transform(ORIGIN, 0, to_vec2(ONE)),
                   Transform(ORIGIN, 0, to_vec2(UNIT_SIZE)), a.units, a.switch, a.mount,
                   a.led, a.stabilizer, a.vertical, a.front_silk, a.show_value,
                   a.switch_offset, a.switch_angle)

FreshIsoEnter(a) ==
    make_mx_iso_enter(Transform(ORIGIN, 0, to_vec2(ONE)),
                      Transform(ORIGIN, 0, to_vec2(UNIT_SIZE)), a.switch, a.mount, a.led,
                      a.stabilizer, a.front_silk, a.show_value, a.switch_angle)

\* C11: a build is deterministic and independent of the builds before it:
\* whatever calls came earlier, the name, the description, the error and the
\* ordered element list of a make_* call are those of the same options built
\* in a fresh module; and a call that passes an option with its default value
\* gets the name of the call that omits the option.
C11_BuildIsHistoryIndependent ==
    /\ op = "make_mx_switch" =>
        /\ [ret |-> ret, mod |-> mod] = Outcome(FreshSwitch(arg))
        /\ "kwargs" \in DOMAIN arg =>
            \A k \in DOMAIN arg.kwargs :
                arg.kwargs[k] = make_mx_switch_defaults[k] =>
                    ret.v.name = FreshSwitch(Bind(make_mx_switch_defaults,
                                                  Omit(arg.kwargs, k))).name
    /\ op = "make_mx_iso_enter" =>
        /\ [ret |-> ret, mod |-> mod] = Outcome(FreshIsoEnter(arg))
        /\ "kwargs" \in DOMAIN arg =>
            \A k \in DOMAIN arg.kwargs :
                arg.kwargs[k] = make_mx_iso_enter_defaults[k] =>
                    ret.v.name = FreshIsoEnter(Bind(make_mx_iso_enter_defaults,
                                                    Omit(arg.kwargs, k))).name

\* A 2u key built with the default stabilizer passed explicitly: its
\* stabilizer holes are placed from the shared IDENTITY
C11_Witness ==
    /\ op = "make_mx_switch"
    /\ "kwargs" \in DOMAIN arg
    /\ arg.kwargs = [units |-> 2 * ONE, stabilizer |-> "Stabilizer.NORMAL"]
    /\ ret.err = "none"
    /\ ret.v.name = "Cherry_MX_2.00u"
    /\ Len(mod) = 16

\* The sweep of C12: four sizes, every switch, LED and stabilizer, the other
\* options at their defaults
SweepSizes == {SizeUnits(ONE), SizeUnits(Milli(1250)), SizeUnits(2 * ONE), SizeUnits(6 * ONE)}

Sweep ==
    [size : SweepSizes, switch : Switch, mount : {"Mount.PCB"}, led : Led,
     stabilizer : Stabilizer, vertical : {FALSE}, switch_offset : {ORIGIN},
     switch_angle : {0}]

NameOf(a) ==
    _get_footprint_name_desc(a.size, a.switch, a.mount, a.led, a.stabilizer, a.vertical,
                             a.switch_offset, a.switch_angle).v.name

\* C12: over the sweep, two distinct option tuples get the same name exactly
\* when they agree on size, switch and LED and the size has no stabilizer
\* width (they differ only in a stabilizer the footprint does not have);
\* every other pair of distinct tuples gets distinct names.
C12_NamesCollideOnlyWithoutStabilizer ==
    (op = "_get_footprint_name_desc" /\ arg \in Sweep) =>
        /\ ret.err = "none"
        /\ \A other \in Sweep \ {arg} :
            (NameOf(other) = ret.v.name) <=>
                /\ other.size = arg.size
                /\ other.switch = arg.switch
                /\ other.led = arg.led
                /\ get_mx_stabilizer_width(arg.size.units) = 0

\* A 1.25u hot-swap key with an LED: the reversed stabilizer it was given is
\* not in its name; the same key at 2u is in another state of the sweep
C12_Witness ==
    /\ op = "_get_footprint_name_desc"
    /\ arg \in Sweep
    /\ arg.size = SizeUnits(Milli(1250))
    /\ arg.switch = "Switch.HOTSWAP"
    /\ arg.led = "Led.NORMAL"
    /\ arg.stabilizer = "Stabilizer.REVERSE"
    /\ ret.v.name = "Cherry_MX_1.25u_Hotswap_LED"
    /\ NameOf([arg EXCEPT !.stabilizer = "Stabilizer.NONE"]) = ret.v.name
    /\ NameOf([arg EXCEPT !.size = SizeUnits(2 * ONE)]) # NameOf([arg EXCEPT !.size = SizeUnits(2 * ONE), !.stabilizer = "Stabilizer.NONE"])

\* The option tuples that differ from a in one option
Variations(a, values) ==
    UNION {{[a EXCEPT ![k] = v] : v \in values[k]} : k \in DOMAIN values}

SwitchOptionValues ==
    [units |-> BuildUnits, switch |-> Switch, mount |-> Mount, led |-> Led,
     stabilizer |-> Stabilizer, vertical |-> BOOLEAN, front_silk |-> BOOLEAN,
     show_value |-> BOOLEAN, switch_offset |-> BuildOffsets,
     switch_angle |-> BuildAngles]

IsoEnterOptionValues ==
    [switch |-> Switch, mount |-> Mount, led |-> Led, stabilizer |-> Stabilizer,
     front_silk |-> BOOLEAN, show_value |-> BOOLEAN, switch_angle |-> BuildAngles]

\* C13: two footprints of make_mx_switch, or two of make_mx_iso_enter, with
\* different element lists have different names (compared here: the footprint
\* built and every footprint whose options differ from it in one option).
C13_DifferentElementsDifferentNames ==
    /\ (op = "make_mx_switch" /\ ret.err = "none") =>
        \A other \in Variations(arg, SwitchOptionValues) :
            \A m \in {FreshSwitch(other)} :
                (Raised(m.log) = "none" /\ Appended(m.log) # mod) => m.name # ret.v.name
    /\ (op = "make_mx_iso_enter" /\ ret.err = "none") =>
        \A other \in Variations(arg, IsoEnterOptionValues) :
            \A m \in {FreshIsoEnter(other)} :
                (Raised(m.log) = "none" /\ Appended(m.log) # mod) => m.name # ret.v.name

\* A node list that starts and ends with a point and has no two markers side
\* by side
WellFormedCurve(nodes) ==
    /\ Len(nodes) >= 1
    /\ ~IsArcCenter(nodes[1])
    /\ ~IsArcCenter(nodes[Len(nodes)])
    /\ \A i \in 1..(Len(nodes) - 1) : ~(IsArcCenter(nodes[i]) /\ IsArcCenter(nodes[i + 1]))

Markers(nodes) == Cardinality({i \in DOMAIN nodes : IsArcCenter(nodes[i])})

\* The element the node at i contributes with the node after it
CurveElement(nodes, i, t) ==
    IF IsArcCenter(nodes[i])
    THEN <<[kind |-> "Arc", start |-> ScaleRotateTranslate(t, nodes[i - 1]),
            center |-> ScaleRotateTranslate(t, Vec(nodes[i].x, nodes[i].y)),
            end |-> ScaleRotateTranslate(t, nodes[i + 1]),
            layer |-> "F_SILK", width |-> DEFAULT_STROKE]>>
    ELSE IF IsArcCenter(nodes[i + 1]) THEN <<>>
    ELSE <<[kind |-> "Line", start |-> ScaleRotateTranslate(t, nodes[i]),
            end |-> ScaleRotateTranslate(t, nodes[i + 1]),
            layer |-> "F_SILK", width |-> DEFAULT_STROKE]>>

\* C14: for a node list that starts and ends with a point and has no two
\* adjacent markers (and a transform T with a quadrant rotation), add_curve
\* appends, in the order of the list, one Line(T(P), T(Q)) per adjacent pair
\* of points P, Q and one Arc(T(P), T(c), T(Q)) per P, ArcCenter(c), Q, and
\* nothing else: n nodes with k markers give n - 1 - k elements.
C14_CurveElements ==
    (op = "add_curve" /\ WellFormedCurve(arg.nodes) /\ IsQuadrantAngle(arg.transform.rotate)) =>
        /\ ret.err = "none"
        /\ mod = Flatten([i \in 1..(Len(arg.nodes) - 1) |->
                            CurveElement(arg.nodes, i, arg.transform)])
        /\ Len(mod) = Len(arg.nodes) - 1 - Markers(arg.nodes)

\* Point, point, marker, point under a quarter turn: one line, then one arc
C14_Witness ==
    /\ op = "add_curve"
    /\ WellFormedCurve(arg.nodes)
    /\ Len(arg.nodes) = 4
    /\ ~IsArcCenter(arg.nodes[2])
    /\ IsArcCenter(arg.nodes[3])
    /\ arg.nodes[1] # arg.nodes[2]
    /\ arg.transform.rotate = 90
    /\ Len(mod) = 2
    /\ mod[1].kind = "Line"
    /\ mod[2].kind = "Arc"
    /\ mod[2].start = mod[1].end

HasAdjacentMarkers(nodes) ==
    \E i \in 1..(Len(nodes) - 1) : IsArcCenter(nodes[i]) /\ IsArcCenter(nodes[i + 1])

\* C15: add_curve fails for every node list with two markers side by side,
\* wherever they stand and whatever precedes or follows them; under a
\* transform with a quadrant rotation the error is the adjacent-marker
\* TypeError.
C15_AdjacentMarkersFail ==
    (op = "add_curve" /\ HasAdjacentMarkers(arg.nodes)) =>
        /\ ret.err # "none"
        /\ IsQuadrantAngle(arg.transform.rotate) => ret.err = "TypeError"

\* Two markers at the end of the list, after a line that was appended
C15_Witness ==
    /\ op = "add_curve"
    /\ Len(arg.nodes) = 4
    /\ ~IsArcCenter(arg.nodes[1])
    /\ ~IsArcCenter(arg.nodes[2])
    /\ IsArcCenter(arg.nodes[3])
    /\ IsArcCenter(arg.nodes[4])
    /\ arg.transform.rotate = 0 - 90
    /\ ret.err = "TypeError"
    /\ Len(mod) = 1

\* Elements of a footprint, by what they are
IsPad(e, type) == e.kind = "Pad" /\ e.type = type

IsHole(e, diameter) == IsPad(e, "np_thru_hole") /\ e.drill = diameter /\ e.size = to_vec2(diameter)

IsOutline(e, layer) == e.kind = "RectLine" /\ e.layer = layer

IsText(e, type) == e.kind = "Text" /\ e.type = type

Count(elems, Test(_)) == Cardinality({i \in DOMAIN elems : Test(elems[i])})

\* C16: make_mx_switch() with every option at its default returns a footprint
\* named "Cherry_MX_1.00u" with exactly 2 through-hole pads, exactly 3
\* non-plated holes (one central 4 mm hole, two 1.7 mm PCB-mount holes), one
\* rectangle outline on each of front fab, front courtyard and front silk,
\* one reference text and one value text, one keycap outline rectangle with
\* its size label, no stabilizer holes and no 3D model.
C16_DefaultFootprint ==
    (op = "make_mx_switch"
        /\ \A k \in DOMAIN make_mx_switch_defaults : arg[k] = make_mx_switch_defaults[k]) =>
        /\ ret.err = "none"
        /\ ret.v.name = "Cherry_MX_1.00u"
        /\ Count(mod, LAMBDA e : IsPad(e, "thru_hole")) = 2
        /\ Count(mod, LAMBDA e : IsPad(e, "np_thru_hole")) = 3
        /\ Count(mod, LAMBDA e : IsHole(e, 4 * ONE) /\ e.at = ORIGIN) = 1
        /\ Count(mod, LAMBDA e : IsHole(e, Milli(1700)) /\ e.at.y = 0
                                 /\ Abs(e.at.x) = Milli(5080)) = 2
        /\ Count(mod, LAMBDA e : IsPad(e, "smd")) = 0
        /\ Count(mod, LAMBDA e : IsOutline(e, "F_FAB")) = 1
        /\ Count(mod, LAMBDA e : IsOutline(e, "F_COURT")) = 1
        /\ Count(mod, LAMBDA e : IsOutline(e, "F_SILK")) = 1
        /\ Count(mod, LAMBDA e : IsText(e, "reference")) = 1
        /\ Count(mod, LAMBDA e : IsText(e, "value")) = 1
        /\ Count(mod, LAMBDA e : IsOutline(e, "USER_DRAWING")) = 1
        /\ Count(mod, LAMBDA e : IsText(e, "user") /\ e.text = "1U") = 1
        /\ Count(mod, LAMBDA e : e.kind = "Model") = 0
        /\ Len(mod) = 12

\* The call that passes no option at all
C16_Witness ==
    /\ op = "make_mx_switch"
    /\ "kwargs" \in DOMAIN arg
    /\ DOMAIN arg.kwargs = {}
    /\ ret.err = "none"
    /\ Len(mod) = 12
    /\ \E i \in DOMAIN mod : IsOutline(mod[i], "USER_DRAWING")
                             /\ mod[i].end.x - mod[i].start.x = UNIT_SIZE

\* One of the four enum options of the call is no member of its enum
HasNonMember(a) ==
    \/ a.switch \notin Switch
    \/ a.mount \notin Mount
    \/ a.led \notin Led
    \/ a.stabilizer \notin Stabilizer

\* C17: a call of make_mx_switch or make_mx_iso_enter with a value of switch,
\* mount, led or stabilizer that is no member of its enum fails, at every key
\* size, before any element is appended, and returns no footprint.
C17_NonMemberRejectedAtBoundary ==
    (op \in {"make_mx_switch", "make_mx_iso_enter"} /\ HasNonMember(arg)) =>
        /\ ret.err # "none"
        /\ mod = <<>>

\* C18: in every footprint built by make_mx_switch or make_mx_iso_enter, for
\* every switch_angle in {0, 90, 180, 270} and every switch variant, the
\* reference Text element has rotation 0.
C18_ReferenceStaysUpright ==
    (op \in {"make_mx_switch", "make_mx_iso_enter"} /\ ret.err = "none"
        /\ arg.switch_angle \in {0, 90, 180, 270}) =>
        \A i \in DOMAIN mod : IsText(mod[i], "reference") => mod[i].rotation = 0

\* A line, arc or circle drawn on the layer
IsDrawnOn(e, layer) == e.kind \in {"Line", "Arc", "Circle"} /\ e.layer = layer

\* A surface-mount pad on the layers, of the size, whichever way it is turned
IsSmtPad(e, layers, w, h) ==
    IsPad(e, "smd") /\ e.layers = layers /\ e.size \in {Vec(w, h), Vec(h, w)}

IsThtPad(e, diameter, drill) ==
    IsPad(e, "thru_hole") /\ e.shape = "circle" /\ e.size = to_vec2(diameter) /\ e.drill = drill

SolderBody ==
    /\ ret.err = "none"
    /\ Count(mod, LAMBDA e : IsPad(e, "thru_hole")) = 2
    /\ Count(mod, LAMBDA e : IsPad(e, "thru_hole") /\ e.shape = "circle" /\ e.number = 1) = 1
    /\ Count(mod, LAMBDA e : IsPad(e, "thru_hole") /\ e.shape = "circle" /\ e.number = 2) = 1
    /\ Count(mod, LAMBDA e : IsPad(e, "smd")) = 0
    /\ Count(mod, LAMBDA e : IsOutline(e, "F_FAB")) = 1
    /\ Count(mod, LAMBDA e : IsDrawnOn(e, "B.CrtYd") \/ IsDrawnOn(e, "B.Fab")) = 0

HotswapBody ==
    /\ ret.err = "none"
    /\ Count(mod, LAMBDA e : IsPad(e, "smd")) = 2
    /\ Count(mod, LAMBDA e : IsSmtPad(e, <<"B.Cu", "B.Mask", "B.Paste">>,
                                      Milli(2550), Milli(2500))) = 2
    /\ Count(mod, LAMBDA e : IsHole(e, 3 * ONE)) = 2
    /\ Count(mod, LAMBDA e : IsPad(e, "thru_hole")) = 0
    /\ Count(mod, LAMBDA e : IsOutline(e, "F_FAB")) = 0
    /\ Count(mod, LAMBDA e : IsDrawnOn(e, "B.CrtYd")) > 0
    /\ Count(mod, LAMBDA e : IsDrawnOn(e, "B.Fab")) > 0

AntishearBody ==
    /\ ret.err = "none"
    /\ Count(mod, LAMBDA e : IsSmtPad(e, <<"B.Cu">>, Milli(4500), Milli(2500))) = 2
    /\ Count(mod, LAMBDA e : IsSmtPad(e, <<"B.Mask", "B.Paste">>,
                                      Milli(2550), Milli(2500))) = 2
    /\ Count(mod, LAMBDA e : IsPad(e, "smd")) = 4
    /\ Count(mod, LAMBDA e : IsThtPad(e, 4 * ONE, 3 * ONE)) = 2
    /\ Count(mod, LAMBDA e : IsHole(e, 3 * ONE)) = 0
    /\ Count(mod, LAMBDA e : IsThtPad(e, Milli(800), Milli(400))) = 4
    /\ Count(mod, LAMBDA e : IsPad(e, "thru_hole")) = 6
    /\ Count(mod, LAMBDA e : IsOutline(e, "F_FAB")) = 0
    /\ Count(mod, LAMBDA e : IsDrawnOn(e, "B.CrtYd")) > 0
    /\ Count(mod, LAMBDA e : IsDrawnOn(e, "B.Fab")) > 0

\* C19: the switch body has, for Solder, exactly 2 circular through-hole pads
\* numbered 1 and 2 and the front fab outline; for Hotswap, exactly 2
\* surface-mount copper pads, 2 non-plated 3 mm support holes, no
\* through-hole pad, a back courtyard and a back fab outline and no front fab
\* outline; for Hotswap-Antishear, 2 copper pads 4.5 wide, 2 paste pads 2.55
\* wide, the 2 support holes as through-hole pads, exactly 4 small
\* through-hole vias, the back courtyard and back fab outlines and no front
\* fab outline.
C19_VariantPads ==
    (op = "add_mx_switch" /\ IsQuadrantAngle(arg.transform.rotate)) =>
        /\ arg.switch = "Switch.SOLDER" => SolderBody
        /\ arg.switch = "Switch.HOTSWAP" => HotswapBody
        /\ arg.switch = "Switch.HOTSWAP_ANTISHEAR" => AntishearBody

\* The place of a stabilizer hole drawn at (x, y) for a horizontal key: a
\* vertical key turns it by a quarter turn
StabilizerPlace(x, y, vertical) == IF vertical THEN Vec(y, 0 - x) ELSE Vec(x, y)

\* C20: add_mx_stabilizer appends exactly four non-plated holes when the
\* stabilizer is not NONE and get_mx_stabilizer_width(units) is not 0, and
\* nothing otherwise.  The holes are a top pair of diameter 3.05 and a bottom
\* pair of diameter 4 at x = -width/2 and x = width/2, the bottom pair 15.24
\* from the top pair; REVERSE negates the y coordinates, and that before the
\* quarter turn a vertical key applies to all four.
C20_StabilizerHoles ==
    op = "add_mx_stabilizer" =>
        LET width == get_mx_stabilizer_width(arg.units)
            m == IF arg.stabilizer = "Stabilizer.REVERSE" THEN 0 - 1 ELSE 1
            top == m * (0 - 7 * ONE)
            bottom == m * (0 - 7 * ONE + Milli(15240))
        IN  /\ ret.err = "none"
            /\ (arg.stabilizer = "Stabilizer.NONE" \/ width = 0) => mod = <<>>
            /\ (arg.stabilizer # "Stabilizer.NONE" /\ width # 0) =>
                /\ Len(mod) = 4
                /\ \A x \in {0 - (width \div 2), width \div 2} :
                    /\ Count(mod, LAMBDA e : IsHole(e, Milli(3050))
                            /\ e.at = StabilizerPlace(x, top, arg.vertical)) = 1
                    /\ Count(mod, LAMBDA e : IsHole(e, 4 * ONE)
                            /\ e.at = StabilizerPlace(x, bottom, arg.vertical)) = 1

\* A vertical 2.25u key with the reversed stabilizer: the bottom pair, drawn
\* at y = 8.24, mirrored to -8.24 and then turned, lies at x = -8.24
C20_Witness ==
    /\ op = "add_mx_stabilizer"
    /\ arg.units = Milli(2250)
    /\ arg.stabilizer = "Stabilizer.REVERSE"
    /\ arg.vertical
    /\ Len(mod) = 4
    /\ mod[3].drill = 4 * ONE
    /\ mod[3].at.x = 0 - Milli(8240)
    /\ Abs(mod[3].at.y) = Milli(11900)
    /\ mod[1].at.x = 7 * ONE

IsHotswap(switch) == switch \in {"Switch.HOTSWAP", "Switch.HOTSWAP_ANTISHEAR"}

\* The 3D-model elements of the footprint are the one model of a hot-swap
\* socket placed at translate / 25.4 (mm is the translate in millimetres:
\* 25.4 * at = mm, written 127 * at = 5 * mm) and turned by rotate about z,
\* or none for the other switches
ModelPlaced(switch, mm, rotate) ==
    IF IsHotswap(switch)
    THEN /\ Count(mod, LAMBDA e : e.kind = "Model") = 1
         /\ \A i \in DOMAIN mod : mod[i].kind = "Model" =>
                /\ 127 * mod[i].at.x = 5 * mm.x
                /\ 127 * mod[i].at.y = 5 * mm.y
                /\ mod[i].at.z = 0
                /\ mod[i].angle = [x |-> 0, y |-> 0, z |-> rotate]
    ELSE Count(mod, LAMBDA e : e.kind = "Model") = 0

\* switch_offset * 19.05 mm, for offsets in thousandths of a unit
OffsetMillimetres(offset) ==
    Vec((offset.x \div 1000) * 19050, (offset.y \div 1000) * 19050)

\* C21: a footprint holds a 3D-model element exactly when its switch is
\* HOTSWAP or HOTSWAP_ANTISHEAR, and then exactly one; the model is placed at
\* the placement translate (switch_offset * 19.05 mm) divided by 25.4 in x
\* and y with z = 0, and its z rotation is the placement rotation; SOLDER and
\* NONE never hold one.
C21_ModelOnlyForHotswap ==
    /\ op = "add_mx_3d_model" =>
        /\ ret.err = "none"
        /\ ModelPlaced(arg.switch, arg.transform.translate, arg.transform.rotate)
    /\ (op = "make_mx_switch" /\ ret.err = "none") =>
        ModelPlaced(arg.switch, OffsetMillimetres(arg.switch_offset), arg.switch_angle)
    /\ (op = "make_mx_iso_enter" /\ ret.err = "none") =>
        ModelPlaced(arg.switch, ORIGIN, arg.switch_angle)

\* A hot-swap key, its switch a quarter unit right and half a unit up of the
\* key centre and turned by 90: the model is the last element, at
\* (0.1875, -0.375) inches
C21_Witness ==
    /\ op = "make_mx_switch"
    /\ ret.err = "none"
    /\ arg.switch = "Switch.HOTSWAP"
    /\ arg.switch_offset = Vec(Milli(250), 0 - Milli(500))
    /\ arg.switch_angle = 90
    /\ mod[Len(mod)].kind = "Model"
    /\ mod[Len(mod)].at = [x |-> 187500, y |-> 0 - 375000, z |-> 0]
    /\ mod[Len(mod)].angle.z = 90

IsPrefix(s, t) == Len(s) <= Len(t) /\ SubSeq(t, 1, Len(s)) = s

ElementGroup(e, centre) ==
    CASE IsText(e, "reference") -> 1
      [] IsText(e, "value") -> 2
      [] IsText(e, "user") -> 7
      [] e.kind = "Model" -> 8
      [] e.kind \in {"RectLine", "Line"} /\ e.layer = "USER_DRAWING" -> 6
      [] IsHole(e, Milli(3050)) -> 4
      [] IsHole(e, 4 * ONE) /\ e.at # centre -> 4
      [] IsPad(e, "thru_hole") /\ e.drill = Milli(1040) -> 5
      [] OTHER -> 3

InGroupOrder(elems, centre) ==
    /\ Len(elems) >= 2
    /\ ElementGroup(elems[1], centre) = 1
    /\ ElementGroup(elems[2], centre) = 2
    /\ \A i \in DOMAIN elems : i > 2 => ElementGroup(elems[i], centre) > 2
    /\ \A i, j \in DOMAIN elems :
        i < j => ElementGroup(elems[i], centre) <= ElementGroup(elems[j], centre)

\* C23: every footprint make_mx_switch or make_mx_iso_enter returns holds its
\* element groups in one order: the reference text first, the value text
\* second, then the switch body, the stabilizer holes, the LED pads, the
\* keycap outline, its label, and last the 3D model if there is one; a group
\* that is absent leaves the order of the others as it is.
C23_FixedGroupOrder ==
    /\ (op = "make_mx_switch" /\ ret.err = "none") =>
        InGroupOrder(mod, OffsetMillimetres(arg.switch_offset))
    /\ (op = "make_mx_iso_enter" /\ ret.err = "none") => InGroupOrder(mod, ORIGIN)

\* A 2u hot-swap key with an LED: every group is present
C23_Witness ==
    /\ op = "make_mx_switch"
    /\ ret.err = "none"
    /\ arg.switch_offset # ORIGIN
    /\ \A g \in 1..8 :
        \E i \in DOMAIN mod : ElementGroup(mod[i], OffsetMillimetres(arg.switch_offset)) = g

\* C24: the name and the description depend on the switch angle only through
\* its value modulo 360: for a multiple of 90 and every k, the angle plus
\* 360 k gives the same name and description, and the angle fragment is
\* absent exactly when the normalized angle is 0 (360 and 0 give one name).
C24_NameDependsOnAngleModulo360 ==
    (op = "_get_footprint_name_desc" /\ IsQuadrantAngle(arg.switch_angle)) =>
        /\ ret.err = "none"
        /\ (ret.v.name_parts[6] = <<>>) <=> (normalize_angle(arg.switch_angle) = 0)
        /\ \A k \in {0 - 1, 1} :
            \A other \in {_get_footprint_name_desc(arg.size, arg.switch, arg.mount, arg.led,
                                                   arg.stabilizer, arg.vertical,
                                                   arg.switch_offset,
                                                   arg.switch_angle + 360 * k)} :
                /\ other.v.name = ret.v.name
                /\ other.v.desc = ret.v.desc

\* C25: add_curve is all-or-nothing: when a call on a new footprint fails for
\* two adjacent markers, the footprint's element list is what it was before
\* the call, empty; no Line or Arc of the nodes before the pair was appended.
C25_FailedCurveAppendsNothing ==
    (op = "add_curve" /\ HasAdjacentMarkers(arg.nodes) /\ ret.err = "TypeError") =>
        mod = <<>>

\* C26: add_polygon with fill=False does not modify the node list of its
\* caller: after the call the list has the length and the contents it had
\* before, and the call has appended the n segments of the closed ring of
\* the n points.
C26_PolygonLeavesCallerList ==
    (op = "add_polygon" /\ ~arg.fill /\ ret.err = "none") =>
        /\ ret.nodes = arg.nodes
        /\ Len(mod) = Len(arg.nodes)

IsOutlineSegment(e) == e.kind = "Line" /\ e.layer = "USER_DRAWING"

\* C27: the ISO Enter keycap outline is a closed ring of exactly 6 line
\* segments through its 6 corner points scaled by 19.05 mm; no segment is
\* degenerate (none starts where it ends).
C27_IsoEnterOutlineIsSixSegments ==
    (op = "make_mx_iso_enter" /\ ret.err = "none") =>
        /\ Count(mod, IsOutlineSegment) = 6
        /\ \A i \in DOMAIN mod : IsOutlineSegment(mod[i]) => mod[i].start # mod[i].end

\* C28: a marker must stand between two points: add_curve fails for every
\* node list whose first or last node is an ArcCenter.
C28_MarkerAtEndFails ==
    (op = "add_curve" /\ Len(arg.nodes) >= 1
        /\ (IsArcCenter(arg.nodes[1]) \/ IsArcCenter(arg.nodes[Len(arg.nodes)]))) =>
        ret.err # "none"

\* The Line and Arc elements of the footprint on a layer, in emission order
Strokes(layer) ==
    SelectSeq(mod, LAMBDA e : e.kind \in {"Line", "Arc"} /\ e.layer = layer)

\* Each element starts where the one before it ended, and the last ends where
\* the first started
IsClosedCurve(c) ==
    /\ Len(c) > 0
    /\ \A i \in 1..(Len(c) - 1) : c[i + 1].start = c[i].end
    /\ c[Len(c)].end = c[1].start

\* The squared distance of two points, in square micrometres
Distance2(p, q) ==
    LET dx == (p.x - q.x) \div 1000
        dy == (p.y - q.y) \div 1000
    IN  dx * dx + dy * dy

ArcsAreCircular(c) ==
    \A i \in DOMAIN c : c[i].kind = "Arc" =>
        Distance2(c[i].start, c[i].center) = Distance2(c[i].end, c[i].center)

\* C29: the hot-swap outlines on the back courtyard and the back fabrication
\* layer are closed curves under every placement (rotation 0, 90, 180, 270,
\* any offset): each Line or Arc starts where the previous one ended, the last
\* ends at the first one's start, and the start and the end of every Arc are
\* at the same distance from its center.
C29_HotswapOutlinesAreClosed ==
    (op \in {"make_mx_switch", "make_mx_iso_enter"} /\ ret.err = "none"
        /\ arg.switch = "Switch.HOTSWAP") =>
        \A layer \in {"B.CrtYd", "B.Fab"} :
            /\ Len(Strokes(layer)) = 7
            /\ IsClosedCurve(Strokes(layer))
            /\ ArcsAreCircular(Strokes(layer))

\* A hot-swap switch a quarter unit right and half a unit up of the key
\* centre and turned by 180: the second arc of the fabrication outline is
\* about (5.1625, -8.925) and ends the curve at its first point
C29_Witness ==
    /\ op = "make_mx_switch"
    /\ ret.err = "none"
    /\ arg.switch = "Switch.HOTSWAP"
    /\ arg.switch_offset = Vec(Milli(250), 0 - Milli(500))
    /\ arg.switch_angle = 180
    /\ Len(Strokes("B.Fab")) = 7
    /\ Strokes("B.Fab")[7].kind = "Arc"
    /\ Strokes("B.Fab")[7].center = Vec(5162500, 0 - 8925000)
    /\ Strokes("B.Fab")[7].end = Strokes("B.Fab")[1].start

\* The LED pads among elems: the through-hole pads drilled 1.04 mm
LedPads(elems) ==
    SelectSeq(elems, LAMBDA e : e.kind = "Pad" /\ e.type = "thru_hole"
                                    /\ e.drill = Milli(1040))

\* The numbered pads of the switch among elems: the copper pads that are
\* neither unplated holes nor LED pads
SwitchPads(elems) ==
    SelectSeq(elems, LAMBDA e : e.kind = "Pad" /\ e.type # "np_thru_hole"
                                    /\ ~(e.type = "thru_hole" /\ e.drill = Milli(1040)))

\* The elements of the same call with the LED the normal way round
NormalLedBuild ==
    IF op = "make_mx_switch"
    THEN Appended(FreshSwitch([arg EXCEPT !.led = "Led.NORMAL"]).log)
    ELSE Appended(FreshIsoEnter([arg EXCEPT !.led = "Led.NORMAL"]).log)

\* C30: in every footprint built by make_mx_switch or make_mx_iso_enter the
\* numbered switch pads carry 1 or 2; the two LED pads carry 3 and 4 with a
\* switch and 1 and 2 with Switch.NONE, so no LED pad shares its number with
\* a switch pad; Led.REVERSE puts each LED pad where its mirror image in x
\* is, the round pad where the square one was and the square where the round
\* one was, with the numbers and shapes they have in the normal build.
C30_PadNumbering ==
    (op \in {"make_mx_switch", "make_mx_iso_enter"} /\ ret.err = "none") =>
        LET leds == LedPads(mod)
            pads == SwitchPads(mod)
            base == IF arg.switch = "Switch.NONE" THEN 0 ELSE 2
        IN  /\ \A i \in DOMAIN pads : pads[i].number \in {1, 2}
            /\ arg.switch = "Switch.NONE" => pads = <<>>
            /\ IF arg.led = "Led.NONE" THEN leds = <<>>
               ELSE /\ Len(leds) = 2
                    /\ leds[1].number = base + 1 /\ leds[1].shape = "circle"
                    /\ leds[2].number = base + 2 /\ leds[2].shape = "rect"
            /\ \A i \in DOMAIN leds, j \in DOMAIN pads : leds[i].number # pads[j].number
            /\ arg.led = "Led.REVERSE" =>
                LET normal == LedPads(NormalLedBuild) IN
                /\ Len(normal) = 2
                /\ leds[1] = [normal[1] EXCEPT !.at = normal[2].at]
                /\ leds[2] = [normal[2] EXCEPT !.at = normal[1].at]
                /\ leds[1].at # normal[1].at

\* A solder switch with a reversed LED, unturned at the key centre: pad 3,
\* round, is right of the centre at (1.27, 5.08) and pad 4, square, left of
\* it, beside the switch pads 1 and 2
C30_Witness ==
    /\ op = "make_mx_switch"
    /\ ret.err = "none"
    /\ arg.switch = "Switch.SOLDER"
    /\ arg.led = "Led.REVERSE"
    /\ arg.switch_angle = 0
    /\ arg.switch_offset = ORIGIN
    /\ Len(SwitchPads(mod)) = 2
    /\ Len(LedPads(mod)) = 2
    /\ LedPads(mod)[1].number = 3
    /\ LedPads(mod)[1].at = P(1270, 5080)
    /\ LedPads(mod)[2].number = 4
    /\ LedPads(mod)[2].at = P(0 - 1270, 5080)

====
